---- MODULE Spec2Model ----
(***************************************************************************)
(* Execution context, Tornado stack-context backend, request hooks and the *)
(* thread-pool hand-off of the opencensus tracing client.                  *)
(***************************************************************************)
EXTENDS Integers, Sequences, FiniteSets, TLC

\* ------------------------------------------------------------------ bounds
\* Number of attribute-map objects alive at once.
MaxDicts == 4
\* Number of spans the request handlers start in one run.
MaxSpans == 4
\* Number of tasks submitted to the thread pool in one run.
MaxTasks == 2
\* Number of spans the submitter and the pool's tasks start in one run.
MaxPoolSpans == 3
\* Number of traced client operations (fetches, commands) in one run.
MaxCalls == 3
\* Redis calls one thread makes in one behaviour.
MaxRedisCalls == 1
\* Context objects one stack context creates in one behaviour.
MaxEnters == 3
\* Elements of a list in a filter, and keys of a filter document.
MaxItems == 2
MaxKeys == 1
\* Arguments of a redis command after its name.
MaxArgs == 2
\* Times the trace_integration() of one integration is called in one behaviour.
MaxApplied == 2
\* Spans in a behaviour of the redis calls after which the calling thread
\* starts no further span of its own around them.
MaxEnclosing == 2

\* ------------------------------------------------------------ value spaces
Threads == {"t1", "t2"}
Requests == {"r1", "r2"}
\* A context object is a thread's threading.local or a request's
\* _TracerRequestContext.
Locs == Threads \cup Requests
\* _TracerRequestContextManager._state.context is None.
NoContext == "none"

\* The attribute is not present on the context object (getattr default used).
Absent == -1
\* Python None, as a span reference or an attrs reference.
None == 0
\* Any instance of noop_tracer.NoopTracer (stateless, so one value).
NoopTracer == -2

Keys == {"k1", "k2"}
Vals == {"v1"}
\* dict.get() result for a missing key or a missing map.
NoValue == "None"
EmptyMap == [k \in {} |-> "v1"]
Maps == UNION {[D -> Vals] : D \in SUBSET Keys}
Put(m, k, v) == [x \in (DOMAIN m) \cup {k} |-> IF x = k THEN v ELSE m[x]]

DictIds == 1..MaxDicts
\* Opaque tracer and span objects handed to the setters.
TracerVals == {1}
SpanVals == {1}

VARIABLES
    patched,    \* trace_tornado() has replaced execution_context._get_context
    store,      \* context object -> its tracer / current_span / attrs attributes
    dicts,      \* heap of attribute dicts, by reference
    cur,        \* thread -> _TracerRequestContextManager._state.context
    snap,       \* the triple last returned by get_opencensus_full_context
    tracers,    \* heap of Tracer objects
    spans,      \* heap of Span objects, by span id
    exported,   \* the exporter's batches, in export() order
    req,        \* request -> its TRACER attribute (handler.request)
    contexts,   \* request -> thread -> ThreadSafeStackContext.contexts
    pc,         \* request -> where its handler is
    info,       \* history: request -> the tracer and root span made for it, its outcome
    lstack,     \* history: request -> the spans it started and has not ended
    started,    \* history: span -> who started it, under which span
    tasks,      \* the executor's work items, in submission order
    tracerSet,  \* history: context objects given a tracer since their last clean/clear
    calls,      \* the traced client operations (fetch, pymongo command, redis call), in call order
    stackctx,   \* one ThreadSafeStackContext instance shared by several threads
    captured,   \* redis wrapper -> the tracer its patch function looked up, Absent if unpatched
    io,         \* the argument a normalising helper was called with, and what it gave back
    wrappers,   \* patched object -> the tracers its stacked wrappers looked up, innermost first
    last        \* history: the operation that produced this state

vars == <<patched, store, dicts, cur, snap, tracers, spans, exported, req, contexts,
          pc, info, lstack, started, tasks, tracerSet, calls, stackctx, captured,
          io, wrappers, last>>
\* What the request handlers and the thread pool add to the execution context.
flowVars == <<tracers, spans, exported, req, contexts, pc, info, lstack, started, tasks>>
\* What the client integrations and the shared stack context add.
extVars == <<calls, stackctx, captured, io, wrappers>>

EmptyCtx == [tracer |-> Absent, current_span |-> Absent, attrs |-> Absent]
NoSnap == [by |-> "none", tracer |-> NoopTracer, span |-> None, attrs |-> None]

\* --------------------------------------------------------- context lookup
\* execution_context._get_context: the calling thread's thread-local.
ec_get_context(t) == t

\* A _get_context that ignores the entered request context.
tornado_get_context_thread(k, t) == ec_get_context(t)

\* tornado/trace.py _get_context: the entered request context if there is
\* one, else the thread-local. k is current_context() of the calling thread.
tornado_get_context(k, t) == IF k = NoContext THEN ec_get_context(t) ELSE k

\* A module-level global shared by every thread instead of a threading.local.
get_context_global(p, k, t) == "t1"

\* The _get_context in force: p tells whether trace_tornado() replaced it.
_get_context(p, k, t) == IF p THEN tornado_get_context(k, t) ELSE ec_get_context(t)

Ctx(t) == _get_context(patched, cur[t], t)

\* ------------------------------------------------------------------- heap
\* m is a memory: the objects the operators below read and write.
Mem == [store |-> store, dicts |-> dicts, tracers |-> tracers, spans |-> spans,
        exported |-> exported, req |-> req]
Used(m) == {m.store[c].attrs : c \in Locs} \cup {snap.attrs}
HasFree(m) == \E d \in DictIds : d \notin Used(m)
NewDict(m) == CHOOSE d \in DictIds : d \notin Used(m) /\ \A e \in DictIds : e \notin Used(m) => d <= e

\* -------------------------------------------------------- execution_context
get_opencensus_tracer(m, c) ==
    IF m.store[c].tracer = Absent THEN NoopTracer ELSE m.store[c].tracer

set_opencensus_tracer(m, c, tracer) ==
    [m EXCEPT !.store[c].tracer = tracer]

set_opencensus_attr(m, c, k, v) ==
    LET fresh == m.store[c].attrs = Absent
        d == IF fresh THEN NewDict(m) ELSE m.store[c].attrs
        attrs == IF fresh THEN EmptyMap ELSE m.dicts[d]
    IN  [m EXCEPT !.store[c].attrs = d, !.dicts[d] = Put(attrs, k, v)]

\* attrs is a reference to a dict.
set_opencensus_attrs(m, c, attrs) ==
    [m EXCEPT !.store[c].attrs = attrs]

get_opencensus_attrs(m, c) ==
    IF m.store[c].attrs = Absent THEN None ELSE m.store[c].attrs

get_opencensus_attr(m, c, k) ==
    LET attrs == get_opencensus_attrs(m, c)
    IN  IF attrs # None /\ k \in DOMAIN m.dicts[attrs] THEN m.dicts[attrs][k] ELSE NoValue

get_current_span(m, c) ==
    IF m.store[c].current_span = Absent THEN None ELSE m.store[c].current_span

\* set_current_span that also deletes the tracer attribute.
set_current_span_drops_tracer(m, c, current_span) ==
    [m EXCEPT !.store[c].current_span = current_span, !.store[c].tracer = Absent]

set_current_span(m, c, current_span) ==
    [m EXCEPT !.store[c].current_span = current_span]

get_opencensus_full_context(m, c) ==
    [tracer |-> get_opencensus_tracer(m, c),
     span |-> get_current_span(m, c),
     attrs |-> get_opencensus_attrs(m, c)]

\* A dict literal: a new dict object holding map.
NewDictWith(m, map) == [m EXCEPT !.dicts[NewDict(m)] = map]

\* set_opencensus_full_context that leaves the current span as it was.
set_full_context_keeps_span(m, c, tracer, span, attrs) ==
    LET m2 == set_opencensus_tracer(m, c, tracer)
    IN  IF attrs = None \/ m2.dicts[attrs] = EmptyMap
        THEN set_opencensus_attrs(NewDictWith(m2, EmptyMap), c, NewDict(m2))
        ELSE set_opencensus_attrs(m2, c, attrs)

set_opencensus_full_context(m, c, tracer, span, attrs) ==
    LET m1 == set_opencensus_tracer(m, c, tracer)
        m2 == set_current_span(m1, c, span)
    IN  IF attrs = None \/ m2.dicts[attrs] = EmptyMap
        THEN set_opencensus_attrs(NewDictWith(m2, EmptyMap), c, NewDict(m2))
        ELSE set_opencensus_attrs(m2, c, attrs)

\* clean() that forgets to delete the tracer attribute.
clean_keeps_tracer(m, c) ==
    LET m1 == set_opencensus_attrs(NewDictWith(m, EmptyMap), c, NewDict(m))
    IN  [m1 EXCEPT !.store[c].current_span = Absent]

clean(m, c) ==
    LET m1 == set_opencensus_attrs(NewDictWith(m, EmptyMap), c, NewDict(m))
    IN  [m1 EXCEPT !.store[c].current_span = Absent, !.store[c].tracer = Absent]

\* A request context has __slots__ and so no __dict__: clear() raises
\* AttributeError there and changes nothing.
clear_raises(c) == c \in Requests

clear(m, c) ==
    IF clear_raises(c) THEN m ELSE [m EXCEPT !.store[c] = EmptyCtx]

\* What the three getters return in thread t, the attribute map by content.
AttrsResult(m, c) ==
    LET attrs == get_opencensus_attrs(m, c)
    IN  [none |-> attrs = None, map |-> IF attrs = None THEN EmptyMap ELSE m.dicts[attrs]]

Getters(m, c) ==
    [tracer |-> get_opencensus_tracer(m, c),
     span |-> get_current_span(m, c),
     attrs |-> AttrsResult(m, c)]

\* A ThreadSafeStackContext nobody has entered: no context objects, each
\* thread's contexts list empty, each thread between two calls.
NoStackContext ==
    [objs |-> <<>>,
     contexts |-> [t \in Threads |-> <<>>],
     at |-> [t \in Threads |-> "idle"],
     context |-> [t \in Threads |-> 0]]

\* No normalising helper has been called.
NoCall == [fn |-> "none"]

\* The redis objects whose methods the integration replaces.
RedisObjects == {"StrictRedis", "pipe", "pubsub"}
\* The attribute trace_tornado_httpclient wraps.
FETCH == "AsyncHTTPClient.fetch"

\* No redis class patched, no pipeline or pubsub made.
Unpatched == [o \in RedisObjects |-> Absent]

\* History of a request that has not been executed.
NoInfo == [tracer |-> None, root |-> None, outcome |-> "none", hdr |-> "absent"]

\* ------------------------------------------------------------------- init
\* The state after import, whatever a normalising helper is about to be given.
Fresh ==
    /\ patched = FALSE
    /\ store = [c \in Locs |-> EmptyCtx]
    /\ dicts = [d \in DictIds |-> EmptyMap]
    /\ cur = [t \in Threads |-> NoContext]
    /\ snap = NoSnap
    /\ tracers = <<>>
    /\ spans = <<>>
    /\ exported = <<>>
    /\ req = [r \in Requests |-> None]
    /\ contexts = [r \in Requests |-> [t \in Threads |-> <<>>]]
    /\ pc = [r \in Requests |-> "new"]
    /\ info = [r \in Requests |-> NoInfo]
    /\ lstack = [r \in Requests |-> <<>>]
    /\ started = <<>>
    /\ tasks = <<>>
    /\ tracerSet = [c \in Locs |-> FALSE]
    /\ calls = <<>>
    /\ stackctx = NoStackContext
    /\ captured = Unpatched
    /\ wrappers = [o \in RedisObjects \cup {FETCH} |-> <<>>]
    /\ last = [op |-> "init", t |-> "none", ret |-> 0]

Init == Fresh /\ io = NoCall

\* Dict references are opaque: the next state numbers the live dicts in the
\* order their holders (the context objects, then the snapshot) name them.
LocSeq == <<"t1", "t2", "r1", "r2">>
Holders(st, sn) == [i \in 1..(Len(LocSeq) + 1) |->
    IF i <= Len(LocSeq) THEN st[LocSeq[i]].attrs ELSE sn.attrs]
Canon(h, d) ==
    LET first == CHOOSE i \in DOMAIN h : h[i] = d /\ \A j \in 1..(i - 1) : h[j] # d
    IN  Cardinality({h[j] : j \in 1..first} \cap DictIds)

\* Commit memory m0 and snapshot sn as the next state.
Commit(m0, sn) ==
    \E m \in {m0} :
    \E h \in {Holders(m.store, sn)} :
    \E ren \in {[d \in DictIds |-> IF \E i \in DOMAIN h : h[i] = d THEN Canon(h, d) ELSE 0]} :
        /\ store' = [c \in Locs |-> [m.store[c] EXCEPT !.attrs = IF @ \in DictIds THEN ren[@] ELSE @]]
        /\ snap' = [sn EXCEPT !.attrs = IF @ \in DictIds THEN ren[@] ELSE @]
        /\ dicts' = [d \in DictIds |->
                IF \E e \in DictIds : ren[e] = d
                THEN m.dicts[CHOOSE e \in DictIds : ren[e] = d]
                ELSE EmptyMap]
        /\ tracers' = m.tracers
        /\ spans' = m.spans
        /\ exported' = m.exported
        /\ req' = m.req

\* len(context.__dict__): how many of the three attributes are present.
NumAttributes(c) ==
    Cardinality({f \in {"tracer", "current_span", "attrs"} : store[c][f] # Absent})

Did(op, t, ret) == last' = [op |-> op, t |-> t, ret |-> ret]

\* ---------------------------------------- execution-context calls by a thread
EcGetTracer(t) ==
    /\ Did("get_opencensus_tracer", t, get_opencensus_tracer(Mem, Ctx(t)))
    /\ UNCHANGED <<extVars, patched, store, dicts, cur, snap, tracerSet, flowVars>>

EcSetTracer(t) ==
    \E tr \in TracerVals :
        /\ Commit(set_opencensus_tracer(Mem, Ctx(t), tr), snap)
        /\ Did("set_opencensus_tracer", t, tr)
        /\ tracerSet' = [tracerSet EXCEPT ![Ctx(t)] = TRUE]
        /\ UNCHANGED <<extVars, patched, cur, contexts, pc, info, lstack, started, tasks>>

EcSetSpan(t) ==
    \E sp \in SpanVals :
        /\ Commit(set_current_span(Mem, Ctx(t), sp), snap)
        /\ Did("set_current_span", t, sp)
        /\ UNCHANGED <<extVars, patched, cur, tracerSet, contexts, pc, info, lstack, started, tasks>>

EcSetAttr(t, k, v) ==
    /\ HasFree(Mem)
    /\ Commit(set_opencensus_attr(Mem, Ctx(t), k, v), snap)
    /\ Did("set_opencensus_attr", t, 0)
    /\ UNCHANGED <<extVars, patched, cur, tracerSet, contexts, pc, info, lstack, started, tasks>>

\* The caller passes a dict it has just built.
EcSetAttrs(t, map) ==
    /\ HasFree(Mem)
    /\ Commit(set_opencensus_attrs(NewDictWith(Mem, map), Ctx(t), NewDict(Mem)), snap)
    /\ Did("set_opencensus_attrs", t, 0)
    /\ UNCHANGED <<extVars, patched, cur, tracerSet, contexts, pc, info, lstack, started, tasks>>

EcClean(t) ==
    /\ HasFree(Mem)
    /\ Commit(clean(Mem, Ctx(t)), snap)
    /\ Did("clean", t, 0)
    /\ tracerSet' = [tracerSet EXCEPT ![Ctx(t)] = FALSE]
    /\ UNCHANGED <<extVars, patched, cur, contexts, pc, info, lstack, started, tasks>>

EcClear(t) ==
    /\ Commit(clear(Mem, Ctx(t)), snap)
    /\ Did(IF clear_raises(Ctx(t)) THEN "clear_raised" ELSE "clear", t, NumAttributes(Ctx(t)))
    /\ tracerSet' = [tracerSet EXCEPT ![Ctx(t)] = @ /\ clear_raises(Ctx(t))]
    /\ UNCHANGED <<extVars, patched, cur, contexts, pc, info, lstack, started, tasks>>

\* get_opencensus_full_context(): the caller keeps the triple.
EcSnapshot(t) ==
    LET f == get_opencensus_full_context(Mem, Ctx(t))
        sn == [by |-> t, tracer |-> f.tracer, span |-> f.span, attrs |-> f.attrs]
    IN  /\ Commit(Mem, sn)
        /\ Did("get_opencensus_full_context", t, 0)
        /\ UNCHANGED <<extVars, patched, cur, tracerSet, contexts, pc, info, lstack, started, tasks>>

\* set_opencensus_full_context(*triple) in any thread.
EcRestore(t) ==
    /\ snap.by # "none"
    /\ HasFree(Mem)
    /\ Commit(set_opencensus_full_context(Mem, Ctx(t), snap.tracer, snap.span, snap.attrs), snap)
    /\ Did("set_opencensus_full_context", t, 0)
    /\ tracerSet' = [tracerSet EXCEPT ![Ctx(t)] = TRUE]
    /\ UNCHANGED <<extVars, patched, cur, contexts, pc, info, lstack, started, tasks>>

\* Two threads on the default backend, each calling the setters, clean and clear.
NextIso ==
    \E t \in Threads :
        \/ EcSetTracer(t)
        \/ EcSetSpan(t)
        \/ \E k \in Keys, v \in Vals : EcSetAttr(t, k, v)
        \/ \E map \in Maps : EcSetAttrs(t, map)
        \/ EcClean(t)
        \/ EcClear(t)

SpecIso == Init /\ [][NextIso]_vars

\* Attribute writes around a snapshot taken in one thread and restored in
\* another.
NextShare ==
    \E t \in Threads :
        \/ \E k \in Keys, v \in Vals : EcSetAttr(t, k, v)
        \/ EcSnapshot(t)
        \/ EcRestore(t)

SpecShare == Init /\ [][NextShare]_vars

\* The whole execution-context interface, snapshot and restore included.
NextEC ==
    \E t \in Threads :
        \/ EcGetTracer(t)
        \/ EcSetTracer(t)
        \/ EcSetSpan(t)
        \/ EcSetAttr(t, "k1", "v1")
        \/ EcSetAttrs(t, EmptyMap)
        \/ EcClean(t)
        \/ EcClear(t)
        \/ EcSnapshot(t)
        \/ EcRestore(t)

SpecEC == Init /\ [][NextEC]_vars

\* ------------------------------------------------------- tracer and spans
\* The sampler the application is configured with.
SAMPLER_KEY == "AlwaysOnSampler"

\* Sampler.should_sample: a pure function of the policy.
should_sample(sampler) == sampler = "AlwaysOnSampler"

\* A span context that did not come over the wire: a new trace, no span.
FreshContext == [remote |-> FALSE, trace_id |-> 0, span_id |-> None, sampled |-> FALSE]
\* A span context taken from a propagation header of a sampled caller.
RemoteContext == [remote |-> TRUE, trace_id |-> 90, span_id |-> 91, sampled |-> TRUE]

\* A span context taken from a propagation header of an unsampled caller.
UnsampledContext == [remote |-> TRUE, trace_id |-> 80, span_id |-> 81, sampled |-> FALSE]

\* propagator.from_headers: the caller's context, or a fresh one.
from_headers(hdr) ==
    IF hdr = "propagated" THEN RemoteContext
    ELSE IF hdr = "unsampled" THEN UnsampledContext
    ELSE FreshContext

\* Tracer(span_context, sampler, exporter, propagator): a new trace id unless
\* one was propagated; sampling decided by the sampler for a new trace and
\* inherited otherwise; the new tracer installs itself in the context.
Tracer(m, c, sc, sampler) ==
    LET id == Len(m.tracers) + 1
        t == [trace_id |-> IF sc.remote THEN sc.trace_id ELSE id,
              span_id |-> sc.span_id,
              sampled |-> IF sc.remote THEN sc.sampled ELSE should_sample(sampler),
              sampler |-> sampler,
              finish_calls |-> 0]
    IN  set_opencensus_tracer([m EXCEPT !.tracers = Append(@, t)], c, id)

\* tracer.start_span(): the parent is the context's current span; the new
\* span becomes the current span. A no-op tracer does nothing.
start_span(m, c, tracer) ==
    IF tracer = NoopTracer THEN m
    ELSE
        LET parent == get_current_span(m, c)
            id == Len(m.spans) + 1
            span == [span_id |-> id,
                     parent |-> parent,
                     parent_span_id |-> IF parent = None THEN m.tracers[tracer].span_id
                                        ELSE m.spans[parent].span_id,
                     trace_id |-> IF parent = None THEN m.tracers[tracer].trace_id
                                  ELSE m.spans[parent].trace_id,
                     sampled |-> IF parent = None THEN m.tracers[tracer].sampled
                                 ELSE m.spans[parent].sampled,
                     tracer |-> tracer,
                     name |-> <<"span">>,
                     span_kind |-> "UNSPECIFIED",
                     http_status_code |-> "none",
                     open |-> TRUE]
        IN  set_current_span(
                [m EXCEPT !.spans = Append(@, span), !.tracers[tracer].span_id = id], c, id)

\* An export() that keeps only the batch it was given last.
export_overwrites(batches, span_datas) == <<span_datas>>

\* CapturingExporter.export: the batch is appended to the exporter's list.
export(batches, span_datas) == Append(batches, span_datas)

\* tracer.end_span(): ends the current span, makes its parent current again
\* and exports it if sampled; nothing to do without a current span.
end_span(m, c, tracer) ==
    IF tracer = NoopTracer \/ get_current_span(m, c) = None THEN m
    ELSE
        LET id == get_current_span(m, c)
            span == m.spans[id]
            m1 == [m EXCEPT !.spans[id].open = FALSE,
                            !.tracers[tracer].span_id = span.parent_span_id,
                            !.exported = IF span.open /\ span.sampled
                                         THEN export(@, <<id>>) ELSE @]
        IN  set_current_span(m1, c, span.parent)

\* span.name and span.span_kind set on the span start_span returned, if it
\* returned a new one (m0 is the memory before start_span).
set_name_and_kind(m0, m, name, span_kind) ==
    IF Len(m.spans) > Len(m0.spans)
    THEN [m EXCEPT !.spans[Len(m.spans)].name = name,
                   !.spans[Len(m.spans)].span_kind = span_kind]
    ELSE m

\* tracer.add_attribute_to_current_span for the HTTP status code attribute:
\* written to the current span if there is one and it is open.
add_http_status_code(m, c, tracer, value) ==
    IF tracer = NoopTracer \/ get_current_span(m, c) = None THEN m
    ELSE IF ~m.spans[get_current_span(m, c)].open THEN m
    ELSE [m EXCEPT !.spans[get_current_span(m, c)].http_status_code = value]

\* The spans the tracer started and has not ended.
OpenSpans(m, tracer) ==
    {i \in DOMAIN m.spans : m.spans[i].tracer = tracer /\ m.spans[i].open}

RECURSIVE end_all(_, _, _)
end_all(m, c, tracer) ==
    IF OpenSpans(m, tracer) = {} \/ get_current_span(m, c) = None THEN m
    ELSE end_all(end_span(m, c, tracer), c, tracer)

\* tracer.finish(): ends every span still open.
finish(m, c, tracer) ==
    IF tracer = NoopTracer THEN m
    ELSE end_all([m EXCEPT !.tracers[tracer].finish_calls = @ + 1], c, tracer)

\* ------------------------------------------------------- tornado stack context
\* The thread that runs the IOLoop.
IOLoop == "t1"

\* k is a stack state: [cur |-> ..., contexts |-> ...].
Stack == [cur |-> cur, contexts |-> contexts]

\* ThreadSafeStackContext.enter with _TracerRequestContextManager.__enter__.
enter(k, t, r) ==
    [cur |-> [k.cur EXCEPT ![t] = r],
     contexts |-> [k.contexts EXCEPT ![r][t] = Append(@, k.cur[t])]]

\* An __exit__ that makes no context current instead of the previous one.
exit_to_none(k, t, r) ==
    [cur |-> [k.cur EXCEPT ![t] = NoContext],
     contexts |-> [k.contexts EXCEPT ![r][t] = SubSeq(@, 1, Len(@) - 1)]]

\* ThreadSafeStackContext.exit with _TracerRequestContextManager.__exit__.
exit(k, t, r) ==
    [cur |-> [k.cur EXCEPT ![t] = k.contexts[r][t][Len(k.contexts[r][t])]],
     contexts |-> [k.contexts EXCEPT ![r][t] = SubSeq(@, 1, Len(@) - 1)]]

\* ------------------------------------------------------- tornado request hooks
Headers == {"absent", "propagated"}
\* No header, or the header of an unsampled caller.
UnsampledHeaders == {"absent", "unsampled"}

\* handler.settings[CONFIG_KEY] and the path's blacklisting: the default
\* configuration, one with another sampler, a blacklisted path, and an
\* application built before trace_tornado() (no configuration).
DefaultConfig == [configured |-> TRUE, sampler |-> SAMPLER_KEY, blacklisted |-> FALSE]
Configs ==
    {DefaultConfig,
     [configured |-> TRUE, sampler |-> "AlwaysOffSampler", blacklisted |-> FALSE],
     [configured |-> TRUE, sampler |-> SAMPLER_KEY, blacklisted |-> TRUE],
     [configured |-> FALSE, sampler |-> "none", blacklisted |-> FALSE]}
\* The request is traced under this configuration.
Traced(config) == config.configured /\ ~config.blacklisted
\* How a handler ends: normally, with an unhandled exception, or with an
\* HTTPError whose status is or is not within 500..599.
Outcomes == {"ok", "error", "http5xx", "http4xx"}

\* '[{}]'.format(_get_class_name(handler)) and handler.request.method: the
\* two parts of the request span's name.
HANDLER == "[tornado.web.RequestHandler]"
METHOD == "GET"
\* str(handler.get_status()) as the finish hooks read it: log_exception runs
\* before send_error changes the status, and on_finish only gets to it when
\* no exception was logged, so both see the status the handler left.
HandlerStatus == "200"

\* tracer.start_span() in _execute with the two assignments that follow it:
\* span.name and span.span_kind = SpanKind.SERVER.
start_request_span(m, c, tracer) ==
    set_name_and_kind(m, start_span(m, c, tracer), <<HANDLER, METHOD>>, "SERVER")

\* The body both finish hooks share: the status code is written on the
\* current span, the tracer is finished and the context is cleaned.
finish_request(m, c, tracer) ==
    clean(finish(add_http_status_code(m, c, tracer, HandlerStatus), c, tracer), c)

\* _execute, inside tracer_stack_context(), up to the call of the handler.
\* _execute that traces a request whose path is blacklisted.
execute_ignores_blacklist(m, c, r, hdr, config) ==
    IF ~config.configured
    THEN [m EXCEPT !.req[r] = NoopTracer]
    ELSE LET m1 == Tracer(m, c, from_headers(hdr), config.sampler)
             tracer == Len(m1.tracers)
         IN  start_request_span([m1 EXCEPT !.req[r] = tracer], c, tracer)

\* _execute that does not read the propagation header.
execute_ignores_header(m, c, r, hdr, config) ==
    IF ~Traced(config)
    THEN [m EXCEPT !.req[r] = NoopTracer]
    ELSE LET m1 == Tracer(m, c, FreshContext, config.sampler)
             tracer == Len(m1.tracers)
         IN  start_request_span([m1 EXCEPT !.req[r] = tracer], c, tracer)

_execute(m, c, r, hdr, config) ==
    IF ~Traced(config)
    THEN [m EXCEPT !.req[r] = NoopTracer]
    ELSE LET m1 == Tracer(m, c, from_headers(hdr), config.sampler)
             tracer == Len(m1.tracers)
         IN  start_request_span([m1 EXCEPT !.req[r] = tracer], c, tracer)

_on_finish(m, c, r) ==
    IF m.req[r] = None THEN m
    ELSE finish_request([m EXCEPT !.req[r] = None], c, m.req[r])

\* _log_exception that leaves the TRACER attribute on the request.
log_exception_keeps_tracer(m, c, r, exc) ==
    IF exc = "ok" \/ m.req[r] = None THEN m
    ELSE IF exc # "http4xx" THEN finish_request(m, c, m.req[r]) ELSE m

_log_exception(m, c, r, exc) ==
    IF exc = "ok" \/ m.req[r] = None THEN m
    ELSE IF exc # "http4xx"
         THEN finish_request([m EXCEPT !.req[r] = None], c, m.req[r])
         ELSE [m EXCEPT !.req[r] = None]

\* The span a request's own starts and ends leave on top.
Top(stack) == IF stack = <<>> THEN None ELSE stack[Len(stack)]

\* History of the spans memory n has and memory m had not, started by who.
Started(m, n, who, under) ==
    IF Len(n.spans) > Len(m.spans)
    THEN Append(started, [by |-> who, lparent |-> under])
    ELSE started

SetStack(k) == cur' = k.cur /\ contexts' = k.contexts

\* config_integration.trace_integrations(['tornado'])
TraceTornado ==
    /\ ~patched
    /\ patched' = TRUE
    /\ Did("trace_tornado", IOLoop, 0)
    /\ UNCHANGED <<extVars, store, dicts, cur, snap, tracerSet, flowVars>>

\* A request arrives: _execute runs the handler up to its first suspension.
Execute(r, hdr, config) ==
    /\ patched /\ pc[r] = "new" /\ cur[IOLoop] = NoContext
    /\ Len(spans) < MaxSpans
    /\ \E k \in {enter(Stack, IOLoop, r)} :
       \E c \in {_get_context(patched, k.cur[IOLoop], IOLoop)} :
       \E m \in {_execute(Mem, c, r, hdr, config)} :
            /\ Commit(m, snap)
            /\ SetStack(k)
            /\ info' = [info EXCEPT ![r] =
                    IF Traced(config)
                    THEN [tracer |-> Len(m.tracers), root |-> Len(m.spans),
                          outcome |-> "none", hdr |-> hdr]
                    ELSE [tracer |-> NoopTracer, root |-> None,
                          outcome |-> "none", hdr |-> "absent"]]
            /\ lstack' = [lstack EXCEPT ![r] =
                    IF Len(m.spans) > Len(spans) THEN <<Len(m.spans)>> ELSE <<>>]
            /\ started' = Started(Mem, m, r, None)
            /\ tracerSet' = [tracerSet EXCEPT ![c] = Traced(config)]
    /\ pc' = [pc EXCEPT ![r] = "running"]
    /\ Did("_execute", IOLoop, 0)
    /\ UNCHANGED <<extVars, patched, tasks>>

\* tracer.start_span('child'): the span is started under the given name.
start_child_span(m, c, tracer) ==
    set_name_and_kind(m, start_span(m, c, tracer), <<"child">>, "UNSPECIFIED")

\* The handler (or a coroutine it called) starts a span on the current tracer.
HandlerStartSpan(r) ==
    /\ pc[r] = "running" /\ cur[IOLoop] = r
    /\ Len(spans) < MaxSpans
    /\ \E c \in {Ctx(IOLoop)} :
       \E m \in {start_child_span(Mem, c, get_opencensus_tracer(Mem, c))} :
            /\ Commit(m, snap)
            /\ started' = Started(Mem, m, r, Top(lstack[r]))
            /\ lstack' = [lstack EXCEPT ![r] =
                            IF Len(m.spans) > Len(spans) THEN Append(@, Len(m.spans)) ELSE @]
            /\ Did("start_span", IOLoop, Len(m.spans))
    /\ UNCHANGED <<extVars, patched, cur, contexts, pc, info, tracerSet, tasks>>

\* The handler ends the span it started last (the request span is ended by
\* the finish hooks).
HandlerEndSpan(r) ==
    /\ pc[r] = "running" /\ cur[IOLoop] = r
    /\ Len(lstack[r]) > 1
    /\ \E c \in {Ctx(IOLoop)} :
            Commit(end_span(Mem, c, get_opencensus_tracer(Mem, c)), snap)
    /\ lstack' = [lstack EXCEPT ![r] = SubSeq(@, 1, Len(@) - 1)]
    /\ Did("end_span", IOLoop, Top(lstack[r]))
    /\ UNCHANGED <<extVars, patched, cur, contexts, pc, info, started, tracerSet, tasks>>

\* The handler's coroutine suspends: the stack context is left.
Yield(r) ==
    /\ pc[r] = "running" /\ cur[IOLoop] = r
    /\ SetStack(exit(Stack, IOLoop, r))
    /\ pc' = [pc EXCEPT ![r] = "suspended"]
    /\ Did("yield", IOLoop, 0)
    /\ UNCHANGED <<extVars, patched, store, dicts, snap, tracers, spans, exported, req, info,
                   lstack, started, tracerSet, tasks>>

\* The coroutine is resumed by a callback wrapped with its stack context.
Resume(r) ==
    /\ pc[r] = "suspended" /\ cur[IOLoop] = NoContext
    /\ SetStack(enter(Stack, IOLoop, r))
    /\ pc' = [pc EXCEPT ![r] = "running"]
    /\ Did("resume", IOLoop, 0)
    /\ UNCHANGED <<extVars, patched, store, dicts, snap, tracers, spans, exported, req, info,
                   lstack, started, tracerSet, tasks>>

\* The handler ends: log_exception runs if it raised, then finish() runs
\* on_finish, and the callback leaves the stack context.
HandlerDone(r, outcome) ==
    /\ pc[r] = "running" /\ cur[IOLoop] = r
    /\ HasFree(Mem)
    /\ \E c \in {Ctx(IOLoop)} :
       \E m \in {_on_finish(_log_exception(Mem, c, r, outcome), c, r)} :
            /\ Commit(m, snap)
            /\ tracerSet' = [tracerSet EXCEPT ![c] = @ /\ outcome = "http4xx"]
    /\ SetStack(exit(Stack, IOLoop, r))
    /\ pc' = [pc EXCEPT ![r] = "done"]
    /\ info' = [info EXCEPT ![r].outcome = outcome]
    /\ lstack' = [lstack EXCEPT ![r] = IF outcome = "http4xx" THEN @ ELSE <<>>]
    /\ Did("finish", IOLoop, 0)
    /\ UNCHANGED <<extVars, patched, started, tasks>>

NextTornado ==
    \/ TraceTornado
    \/ \E r \in Requests :
        \/ \E hdr \in Headers : Execute(r, hdr, DefaultConfig)
        \/ HandlerStartSpan(r)
        \/ HandlerEndSpan(r)
        \/ Yield(r)
        \/ Resume(r)
        \/ \E outcome \in Outcomes : HandlerDone(r, outcome)

SpecTornado == Init /\ [][NextTornado]_vars

\* ------------------------------------------------- the two backends side by side
\* The thread whose thread-local store is the reference: it never enters a
\* request context, so _get_context gives it the thread-local.
Twin == "t2"

\* One call of the execution-context interface with its arguments.
BackendCall(fn, arg, key, value, map) ==
    [fn |-> fn, arg |-> arg, key |-> key, value |-> value, map |-> map]

BackendCalls ==
    {BackendCall(fn, 0, "k1", "v1", EmptyMap) :
        fn \in {"get_opencensus_tracer", "get_current_span", "get_opencensus_attrs",
                "get_opencensus_full_context", "set_opencensus_full_context",
                "clean", "clear"}}
    \cup {BackendCall("set_opencensus_tracer", tr, "k1", "v1", EmptyMap) : tr \in TracerVals}
    \cup {BackendCall("set_current_span", sp, "k1", "v1", EmptyMap) : sp \in SpanVals}
    \cup {BackendCall("set_opencensus_attr", 0, k, v, EmptyMap) : k \in Keys, v \in Vals}
    \cup {BackendCall("set_opencensus_attrs", 0, "k1", "v1", map) : map \in Maps}

\* The call raises in context c.
Raises(c, call) == call.fn = "clear" /\ clear_raises(c)

\* The memory after the call made in context c; sn is the triple a
\* set_opencensus_full_context is given.
Apply(m, c, call, sn) ==
    CASE call.fn = "set_opencensus_tracer" -> set_opencensus_tracer(m, c, call.arg)
      [] call.fn = "set_current_span" -> set_current_span(m, c, call.arg)
      [] call.fn = "set_opencensus_attr" -> set_opencensus_attr(m, c, call.key, call.value)
      [] call.fn = "set_opencensus_attrs" ->
            set_opencensus_attrs(NewDictWith(m, call.map), c, NewDict(m))
      [] call.fn = "set_opencensus_full_context" ->
            set_opencensus_full_context(m, c, sn.tracer, sn.span, sn.attrs)
      [] call.fn = "clean" -> clean(m, c)
      [] call.fn = "clear" -> clear(m, c)
      [] OTHER -> m

\* with tracer_stack_context(): the IOLoop thread enters request r's context.
EnterRequestContext(r) ==
    /\ patched /\ cur[IOLoop] = NoContext
    /\ SetStack(enter(Stack, IOLoop, r))
    /\ Did("enter", IOLoop, 0)
    /\ UNCHANGED <<extVars, store, dicts, snap, tracers, spans, exported, req, patched, pc, info,
                   lstack, started, tracerSet, tasks>>

\* The same call made in the entered request context and in the twin's
\* thread-local store; a full-context snapshot is the request context's.
BothBackends(call) ==
    /\ cur[IOLoop] \in Requests
    /\ call.fn = "set_opencensus_full_context" => snap.by # "none"
    /\ HasFree(Mem)
    /\ \E m1 \in {Apply(Mem, Ctx(IOLoop), call, snap)} :
            /\ HasFree(m1)
            /\ \E m2 \in {Apply(m1, Ctx(Twin), call, snap)} :
                    Commit(m2, IF call.fn = "get_opencensus_full_context"
                               THEN [by |-> IOLoop] @@ get_opencensus_full_context(Mem, Ctx(IOLoop))
                               ELSE snap)
    /\ Did(IF Raises(Ctx(IOLoop), call) \/ Raises(Ctx(Twin), call)
           THEN "clear_raised" ELSE call.fn, IOLoop, 0)
    /\ UNCHANGED <<extVars, patched, cur, contexts, pc, info, lstack, started, tracerSet, tasks>>

NextBackend ==
    \/ TraceTornado
    \/ EnterRequestContext("r1")
    \/ \E call \in BackendCalls : BothBackends(call)

SpecBackend == Init /\ [][NextBackend]_vars

\* ------------------------------------------- entering and leaving by hand
\* The managers thread t has entered and not left, oldest first, as indices
\* of the log of enters.
EnteredBy(t) == {i \in DOMAIN calls : calls[i].kind = "enter" /\ calls[i].by = t}
\* The enter thread t made last and has not left, 0 if none.
Innermost(t) ==
    IF EnteredBy(t) = {} THEN 0
    ELSE CHOOSE i \in EnteredBy(t) : \A j \in EnteredBy(t) : j <= i
Without(seq, i) == [j \in 1..(Len(seq) - 1) |-> IF j < i THEN seq[j] ELSE seq[j + 1]]

\* Thread t enters the stack context of request r: a new manager's
\* __enter__ keeps the context current before it and makes r's current. The
\* log keeps what current_context() and the thread-local getters gave then.
ContextEnter(t, r) ==
    /\ Cardinality(EnteredBy(t)) < MaxEnters - 1
    /\ SetStack(enter(Stack, t, r))
    /\ calls' = Append(calls, [kind |-> "enter", by |-> t, r |-> r, before |-> cur[t],
                               local |-> Getters(Mem, ec_get_context(t))])
    /\ Did("__enter__", t, 0)
    /\ UNCHANGED <<patched, store, dicts, snap, tracers, spans, exported, req, pc, info,
                   lstack, started, tasks, tracerSet, wrappers, stackctx, captured, io>>

\* Thread t leaves the stack context it entered last.
ContextExit(t) ==
    /\ Innermost(t) # 0
    /\ SetStack(exit(Stack, t, calls[Innermost(t)].r))
    /\ calls' = Without(calls, Innermost(t))
    /\ Did("__exit__", t, 0)
    /\ UNCHANGED <<patched, store, dicts, snap, tracers, spans, exported, req, pc, info,
                   lstack, started, tasks, tracerSet, wrappers, stackctx, captured, io>>

\* The IOLoop thread uses the execution context inside and outside of stack
\* contexts, once trace_tornado() has replaced the backend.
NextSwitch ==
    \/ TraceTornado
    \/ \E r \in Requests : patched /\ ContextEnter(IOLoop, r)
    \/ ContextExit(IOLoop)
    \/ EcSetTracer(IOLoop)
    \/ EcSetSpan(IOLoop)
    \/ EcSetAttr(IOLoop, "k1", "v1")
    \/ EcClean(IOLoop)

SpecSwitch == Init /\ [][NextSwitch]_vars

\* Two threads enter and leave stack contexts, properly nested on each.
NextManager ==
    \E t \in Threads :
        \/ \E r \in Requests : ContextEnter(t, r)
        \/ ContextExit(t)

SpecManager == Init /\ [][NextManager]_vars

\* ------------------------------------- one request's context on two threads
\* The thread that runs a callback wrapped with the request's stack context.
SecondThread == "t2"

\* Code running on thread t inside a stack context starts a span on the
\* tracer the execution context gives it.
ThreadStartSpan(t) ==
    /\ patched /\ cur[t] \in Requests
    /\ Len(spans) < MaxSpans
    /\ \E c \in {Ctx(t)} :
       \E m \in {start_span(Mem, c, get_opencensus_tracer(Mem, c))} :
            /\ Commit(m, snap)
            /\ started' = Started(Mem, m, t, get_current_span(Mem, c))
            /\ Did("start_span", t, Len(m.spans))
    /\ UNCHANGED <<extVars, patched, cur, contexts, pc, info, lstack, tracerSet, tasks>>

\* A request is being handled on the IOLoop thread while a callback wrapped
\* with its stack context runs on a second thread.
NextShared ==
    \/ TraceTornado
    \/ \E r \in Requests : Execute(r, "absent", DefaultConfig)
    \/ \E r \in Requests : pc[r] = "running" /\ ContextEnter(SecondThread, r)
    \/ ContextExit(SecondThread)
    \/ \E t \in Threads : ThreadStartSpan(t)

SpecShared == Init /\ [][NextShared]_vars

\* Requests under every configuration, from unsampled callers too, that end
\* normally or with an unhandled exception.
NextArrivals ==
    \/ TraceTornado
    \/ \E r \in Requests :
        \/ \E hdr \in UnsampledHeaders, config \in Configs : Execute(r, hdr, config)
        \/ HandlerStartSpan(r)
        \/ HandlerEndSpan(r)
        \/ Yield(r)
        \/ Resume(r)
        \/ \E outcome \in {"ok", "error"} : HandlerDone(r, outcome)

SpecArrivals == Init /\ [][NextArrivals]_vars

\* ------------------------------------------------------- binary propagation
RECURSIVE BytesOf(_, _)
\* n as len bytes, most significant first.
BytesOf(n, len) == IF len = 0 THEN <<>> ELSE Append(BytesOf(n \div 256, len - 1), n % 256)

RECURSIVE IntOf(_)
IntOf(bytes) ==
    IF bytes = <<>> THEN 0
    ELSE IntOf(SubSeq(bytes, 1, Len(bytes) - 1)) * 256 + bytes[Len(bytes)]

\* tracer.span_context: the trace id, the id of the tracer's current span
\* (of the propagated parent before any span) and the sampling flag; a
\* no-op tracer has a blank one.
span_context(m, tracer) ==
    IF tracer = NoopTracer
    THEN [remote |-> TRUE, trace_id |-> 0, span_id |-> None, sampled |-> FALSE]
    ELSE [remote |-> TRUE, trace_id |-> m.tracers[tracer].trace_id,
          span_id |-> m.tracers[tracer].span_id, sampled |-> m.tracers[tracer].sampled]

\* BinaryFormatPropagator.to_header: version byte, 16-byte trace id, 8-byte
\* span id, options byte whose bit 0 is the sampling flag.
to_header(sc) ==
    <<0>> \o BytesOf(sc.trace_id, 16) \o BytesOf(sc.span_id, 8)
          \o <<IF sc.sampled THEN 1 ELSE 0>>

\* BinaryFormatPropagator.from_header: a buffer of another length or version
\* gives a fresh context.
from_header(bytes) ==
    IF Len(bytes) # 26 \/ bytes[1] # 0 THEN FreshContext
    ELSE [remote |-> TRUE,
          trace_id |-> IntOf(SubSeq(bytes, 2, 17)),
          span_id |-> IntOf(SubSeq(bytes, 18, 25)),
          sampled |-> bytes[26] % 2 = 1]

\* ------------------------------------------------------- thread-pool hand-off
Submitter == "t1"
Worker == "t2"

\* A wrap_submit that ships the header of a blank span context.
wrap_submit_blank(m, c) ==
    LET _tracer == get_opencensus_tracer(m, c)
    IN  [span_context_binary |-> to_header(FreshContext),
         noop |-> _tracer = NoopTracer,
         sampler |-> IF _tracer = NoopTracer THEN "none" ELSE m.tracers[_tracer].sampler]

\* A wrap_submit without the no-op branch: sampler, exporter and propagator
\* are shipped whatever the tracer is.
wrap_submit_always_ships(m, c) ==
    LET _tracer == get_opencensus_tracer(m, c)
    IN  [span_context_binary |-> to_header(span_context(m, _tracer)),
         noop |-> FALSE,
         sampler |-> IF _tracer = NoopTracer THEN SAMPLER_KEY ELSE m.tracers[_tracer].sampler]

\* wrap_submit.call: the keyword arguments shipped with the task.
wrap_submit(m, c) ==
    LET _tracer == get_opencensus_tracer(m, c)
    IN  [span_context_binary |-> to_header(span_context(m, _tracer)),
         noop |-> _tracer = NoopTracer,
         sampler |-> IF _tracer = NoopTracer THEN "none" ELSE m.tracers[_tracer].sampler]

\* A wrap_task_func that builds the worker's tracer on the span context the
\* submitter's tracer has when the task runs.
wrap_task_func_late(m, c, kwargs) ==
    IF kwargs.noop
    THEN set_opencensus_tracer(m, c, NoopTracer)
    ELSE LET live == span_context(m, get_opencensus_tracer(m, Ctx(Submitter)))
             m1 == Tracer(m, c, live, kwargs.sampler)
         IN  set_opencensus_tracer(m1, c, Len(m1.tracers))

\* A wrap_task_func that installs the submitter's own tracer object in the
\* worker.
wrap_task_func_shared(m, c, kwargs) ==
    set_opencensus_tracer(m, c, get_opencensus_tracer(m, Ctx(Submitter)))

\* wrap_task_func.__call__ up to the call of the task's function.
wrap_task_func(m, c, kwargs) ==
    IF kwargs.noop
    THEN set_opencensus_tracer(m, c, NoopTracer)
    ELSE LET m1 == Tracer(m, c, from_header(kwargs.span_context_binary), kwargs.sampler)
         IN  set_opencensus_tracer(m1, c, Len(m1.tracers))

\* The task the worker is running, 0 if it is idle.
Running == IF \E i \in DOMAIN tasks : tasks[i].status = "running"
           THEN CHOOSE i \in DOMAIN tasks : tasks[i].status = "running" ELSE 0

\* History of a task the worker has not begun: no context recorded yet.
NotBegun == [tracer |-> NoopTracer, span |-> None,
             attrs |-> [none |-> TRUE, map |-> EmptyMap]]

\* A thread that has no tracer yet makes one: Tracer(...) installs itself
\* in the execution context of the thread.
NewTracer(t, sc, sampler) ==
    /\ get_current_span(Mem, Ctx(t)) = None
    /\ get_opencensus_tracer(Mem, Ctx(t)) = NoopTracer
    /\ Commit(Tracer(Mem, Ctx(t), sc, sampler), snap)
    /\ tracerSet' = [tracerSet EXCEPT ![Ctx(t)] = TRUE]
    /\ Did("Tracer", t, 0)
    /\ UNCHANGED <<extVars, patched, cur, contexts, pc, info, lstack, started, tasks>>

\* The submitter makes a tracer before it starts any span.
SubmitterTracer == NewTracer(Submitter, FreshContext, SAMPLER_KEY)

\* A thread starts a span on its current tracer.
PoolStartSpan(t) ==
    /\ t = Worker => Running # 0
    /\ Len(spans) < MaxPoolSpans
    /\ \E c \in {Ctx(t)} :
       \E m \in {start_child_span(Mem, c, get_opencensus_tracer(Mem, c))} :
            /\ Commit(m, snap)
            /\ started' = Started(Mem, m, t, None)
            /\ tasks' = IF t = Worker /\ tasks[Running].first = None /\ Len(m.spans) > Len(spans)
                        THEN [tasks EXCEPT ![Running].first = Len(m.spans)] ELSE tasks
            /\ Did("start_span", t, Len(m.spans))
    /\ UNCHANGED <<extVars, patched, cur, contexts, pc, info, lstack, tracerSet>>

\* A thread ends its current span.
PoolEndSpan(t) ==
    /\ t = Worker => Running # 0
    /\ get_current_span(Mem, Ctx(t)) # None
    /\ \E c \in {Ctx(t)} :
            Commit(end_span(Mem, c, get_opencensus_tracer(Mem, c)), snap)
    /\ Did("end_span", t, get_current_span(Mem, Ctx(t)))
    /\ UNCHANGED <<extVars, patched, cur, contexts, pc, info, lstack, started, tasks, tracerSet>>

\* ThreadPoolExecutor.submit, wrapped.
Submit ==
    /\ Len(tasks) < MaxTasks
    /\ tasks' = Append(tasks,
            [kwargs |-> wrap_submit(Mem, Ctx(Submitter)),
             status |-> "queued",
             tracer |-> get_opencensus_tracer(Mem, Ctx(Submitter)),
             span |-> get_current_span(Mem, Ctx(Submitter)),
             held |-> span_context(Mem, get_opencensus_tracer(Mem, Ctx(Submitter))),
             first |-> None,
             before |-> NotBegun])
    /\ Did("submit", Submitter, 0)
    /\ UNCHANGED <<extVars, patched, store, dicts, cur, snap, tracers, spans, exported, req,
                   contexts, pc, info, lstack, started, tracerSet>>

\* The worker takes the oldest queued task and runs its wrapper.
TaskBegin(i) ==
    /\ Running = 0
    /\ i \in DOMAIN tasks /\ tasks[i].status = "queued"
    /\ \A j \in 1..(i - 1) : tasks[j].status = "done"
    /\ Commit(wrap_task_func(Mem, Ctx(Worker), tasks[i].kwargs), snap)
    /\ tasks' = [tasks EXCEPT ![i].status = "running",
                              ![i].before = Getters(Mem, Ctx(Worker))]
    /\ tracerSet' = [tracerSet EXCEPT ![Ctx(Worker)] = TRUE]
    /\ Did("task_begin", Worker, i)
    /\ UNCHANGED <<extVars, patched, cur, contexts, pc, info, lstack, started>>

\* The task's function returns or raises; the wrapper does nothing more.
TaskEnd(i, outcome) ==
    /\ Running = i /\ i # 0
    /\ tasks' = [tasks EXCEPT ![i].status = "done"]
    /\ Did(outcome, Worker, i)
    /\ UNCHANGED <<extVars, patched, store, dicts, cur, snap, tracers, spans, exported, req,
                   contexts, pc, info, lstack, started, tracerSet>>

NextPool ==
    \/ SubmitterTracer
    \/ \E t \in {Submitter, Worker} : PoolStartSpan(t)
    \/ \E t \in {Submitter, Worker} : PoolEndSpan(t)
    \/ Submit
    \/ \E i \in 1..MaxTasks : TaskBegin(i)
    \/ \E i \in 1..MaxTasks, outcome \in {"task_returned", "task_raised"} : TaskEnd(i, outcome)

SpecPool == Init /\ [][NextPool]_vars

\* Span contexts a submitter's tracer can be built on: propagated ones whose
\* ids need one, two or three bytes, sampled or not, or a fresh one.
SubmitterContexts ==
    {FreshContext} \cup
    {[remote |-> TRUE, trace_id |-> trace_id, span_id |-> span_id, sampled |-> sampled] :
        trace_id \in {90, 70000}, span_id \in {91, 300}, sampled \in BOOLEAN}

\* The hand-off alone: the submitter's tracer holds any of the span contexts,
\* moves its span id by starting and ending spans, and submits tasks.
NextHandoff ==
    \/ \E sc \in SubmitterContexts : NewTracer(Submitter, sc, SAMPLER_KEY)
    \/ PoolStartSpan(Submitter)
    \/ PoolEndSpan(Submitter)
    \/ Submit
    \/ \E i \in 1..MaxTasks : TaskBegin(i)
    \/ \E i \in 1..MaxTasks : TaskEnd(i, "task_returned")

SpecHandoff == Init /\ [][NextHandoff]_vars

\* ------------------------------------------------------- tornado http client
\* tornado_httpclient MODULE_NAME, the prefix of the span name.
HTTP_CLIENT == "[tornado.http_client]"
Methods == {"GET", "POST"}
\* How the future of a fetch ends: a response, an HTTPError below 500 or
\* from 500 on, or any other exception.
FetchOutcomes == {"response", "http4xx", "http5xx", "exception"}

\* What fetch is called with: a URL that is a str, an HTTPRequest, a URL
\* that is not a str (a unicode on Python 2, bytes on Python 3), or, for a
\* redirect step, a request that has original_request.
FetchRequests == {"str", "HTTPRequest", "other", "redirect"}

\* _fetch_async raises TypeError: _normalize_request leaves a URL that is
\* not a str in the args tuple, and args[0] = request cannot assign to it.
fetch_raises(request) == request = "other"

\* _fetch_async up to the call of the wrapped fetch: a redirect step is
\* passed through, and a raising call has started no span.
_fetch_async(m, c, method, request) ==
    IF request = "redirect" \/ fetch_raises(request) THEN m
    ELSE LET tracer == get_opencensus_tracer(m, c)
         IN  set_name_and_kind(m, start_span(m, c, tracer), <<HTTP_CLIENT, method>>, "CLIENT")

\* AsyncHTTPClient.fetch wrapped n times, up to the call of the original
\* fetch: each _fetch_async calls the one installed before it, handing it
\* the HTTPRequest it has made of the URL.
RECURSIVE wrapped_fetch(_, _, _, _, _)
wrapped_fetch(m, c, n, method, request) ==
    IF n = 0 \/ request = "redirect" \/ fetch_raises(request) THEN m
    ELSE wrapped_fetch(_fetch_async(m, c, method, request), c, n - 1, method, "HTTPRequest")

\* future.result().code or exc.code; "none" when the exception has no code.
status_code(outcome) ==
    IF outcome = "response" THEN "200"
    ELSE IF outcome = "http4xx" THEN "404"
    ELSE IF outcome = "http5xx" THEN "500"
    ELSE "none"

\* _finish_tracing_callback. str(exc.message) raises AttributeError for an
\* exception without a message attribute (has_message is false), and the
\* callback then ends there; an HTTPError always has one.
_finish_tracing_callback(m, c, outcome, has_message) ==
    LET tracer == get_opencensus_tracer(m, c)
    IN  IF outcome = "exception" /\ ~has_message THEN m
        ELSE end_span(IF status_code(outcome) # "none"
                      THEN add_http_status_code(m, c, tracer, status_code(outcome))
                      ELSE m,
                      c, tracer)

\* The done callbacks of the future of a fetch wrapped n times, one added
\* by each _fetch_async, run in the order they were added.
RECURSIVE done_callbacks(_, _, _, _, _)
done_callbacks(m, c, n, outcome, has_message) ==
    IF n = 0 THEN m
    ELSE done_callbacks(_finish_tracing_callback(m, c, outcome, has_message), c, n - 1,
                        outcome, has_message)

\* The record of a traced client operation. cur is the stack context it was
\* called in, prev the current span before it, span the span it started
\* last, layers the wrappers it went through.
Call(kind, t, arg, m0, m) ==
    [kind |-> kind, by |-> t, cur |-> cur[t], arg |-> arg,
     traced |-> get_opencensus_tracer(m0, Ctx(t)) # NoopTracer,
     prev |-> get_current_span(m0, Ctx(t)),
     span |-> IF Len(m.spans) > Len(m0.spans) THEN Len(m.spans) ELSE None,
     layers |-> Len(wrappers[FETCH]),
     state |-> "pending", outcome |-> "none"]

\* tornado_httpclient trace_integration(tracer): a tracer that is given
\* becomes the caller's current tracer, and trace_tornado_httpclient wraps
\* what AsyncHTTPClient.fetch is now in _fetch_async, which looks no tracer
\* up until it is called.
HttpclientTraceIntegration(t, tracer) ==
    /\ Len(wrappers[FETCH]) < MaxApplied
    /\ tracer \in {None} \cup DOMAIN tracers
    /\ Commit(IF tracer # None THEN set_opencensus_tracer(Mem, Ctx(t), tracer) ELSE Mem, snap)
    /\ tracerSet' = [tracerSet EXCEPT ![Ctx(t)] = @ \/ tracer # None]
    /\ wrappers' = [wrappers EXCEPT ![FETCH] = Append(@, None)]
    /\ Did("trace_integration", t, 0)
    /\ UNCHANGED <<calls, stackctx, captured, io, patched, cur, contexts, pc, info, lstack,
                   started, tasks>>

\* AsyncHTTPClient.fetch, wrapped: the future is pending when it returns;
\* a call that raises has made no future.
Fetch(t, method, request) ==
    /\ wrappers[FETCH] # <<>>
    /\ Len(calls) < MaxCalls
    /\ IF fetch_raises(request)
       THEN /\ Did("fetch_raised", t, 0)
            /\ UNCHANGED <<store, dicts, snap, tracers, spans, exported, req, started, calls>>
       ELSE /\ \E c \in {Ctx(t)} :
               \E m \in {wrapped_fetch(Mem, c, Len(wrappers[FETCH]), method, request)} :
                    /\ Commit(m, snap)
                    /\ started' = started \o [i \in 1..(Len(m.spans) - Len(spans)) |->
                                                [by |-> t, lparent |-> None]]
                    /\ calls' = Append(calls,
                            Call(IF request = "redirect" THEN "redirect" ELSE "fetch",
                                 t, method, Mem, m))
            /\ Did("fetch", t, Len(calls) + 1)
    /\ UNCHANGED <<stackctx, captured, io, patched, cur, contexts, pc, info, lstack, tracerSet, wrappers, tasks>>

\* The future of fetch i is done: its done callbacks run, each wrapped with
\* the stack context the fetch was called in (a redirect step has none).
FetchDone(i, outcome, has_message) ==
    /\ i \in DOMAIN calls /\ calls[i].state = "pending"
    /\ calls[i].kind \in {"fetch", "redirect"}
    /\ outcome = "exception" \/ has_message
    /\ \E c \in {_get_context(patched, calls[i].cur, calls[i].by)} :
            Commit(IF calls[i].kind = "fetch"
                   THEN done_callbacks(Mem, c, calls[i].layers, outcome, has_message)
                   ELSE Mem, snap)
    /\ calls' = [calls EXCEPT ![i].state = "done", ![i].outcome = outcome]
    /\ Did("fetch_done", calls[i].by, i)
    /\ UNCHANGED <<stackctx, captured, io, patched, cur, contexts, pc, info, lstack, started,
                   tracerSet, wrappers, tasks>>

\* Fetches made on the IOLoop thread, as AsyncHTTPClient requires.
NextFetch ==
    \/ NewTracer(IOLoop, FreshContext, SAMPLER_KEY)
    \/ \E tracer \in {None} \cup DOMAIN tracers : HttpclientTraceIntegration(IOLoop, tracer)
    \/ \E method \in Methods, request \in FetchRequests : Fetch(IOLoop, method, request)
    \/ \E i \in 1..MaxCalls, outcome \in FetchOutcomes, has_message \in BOOLEAN :
            FetchDone(i, outcome, has_message)

SpecFetch == Init /\ [][NextFetch]_vars

\* ------------------------------------------------------- pymongo commands
\* pymongo MODULE_NAME, the prefix of the span name.
PYMONGO == "pymongo"
Commands == {"insert", "update"}
CommandEvents == {"succeeded", "failed"}

\* CommandTracer.started
mongo_started(m, c, command_name) ==
    LET tracer == get_opencensus_tracer(m, c)
    IN  set_name_and_kind(m, start_span(m, c, tracer), <<PYMONGO, command_name>>, "CLIENT")

\* A succeeded handler that also cleans the execution context.
succeeded_cleans(m, c) == clean(end_span(m, c, get_opencensus_tracer(m, c)), c)

\* CommandTracer.succeeded
mongo_succeeded(m, c) == end_span(m, c, get_opencensus_tracer(m, c))

\* A failed handler that leaves the span open.
failed_forgets_span(m, c) == m

\* CommandTracer.failed
mongo_failed(m, c) == end_span(m, c, get_opencensus_tracer(m, c))

\* The command thread t has started and not completed, 0 if none.
PendingCommand(t) ==
    IF \E i \in DOMAIN calls : calls[i].by = t /\ calls[i].state = "pending"
    THEN CHOOSE i \in DOMAIN calls : calls[i].by = t /\ calls[i].state = "pending"
    ELSE 0

\* pymongo publishes the started event of a command thread t issues; a
\* thread issues its commands one after another.
MongoStarted(t, command_name) ==
    /\ Len(calls) < MaxCalls
    /\ PendingCommand(t) = 0
    /\ \E m \in {mongo_started(Mem, Ctx(t), command_name)} :
            /\ Commit(m, snap)
            /\ started' = Started(Mem, m, t, None)
            /\ calls' = Append(calls, Call("command", t, command_name, Mem, m))
    /\ Did("started", t, Len(calls) + 1)
    /\ UNCHANGED <<stackctx, captured, io, patched, cur, contexts, pc, info, lstack, tracerSet, wrappers, tasks>>

\* A succeeded or failed event reaches the listener in thread t: the event of
\* the command t has pending, or one with no started event in this context.
MongoCompleted(t, event) ==
    /\ HasFree(Mem)
    /\ Commit(IF event = "succeeded" THEN mongo_succeeded(Mem, Ctx(t))
              ELSE mongo_failed(Mem, Ctx(t)), snap)
    /\ calls' = IF PendingCommand(t) = 0 THEN calls
                ELSE [calls EXCEPT ![PendingCommand(t)].state = "done",
                                   ![PendingCommand(t)].outcome = event]
    /\ Did(event, t, PendingCommand(t))
    /\ UNCHANGED <<stackctx, captured, io, patched, cur, contexts, pc, info, lstack, started,
                   tracerSet, wrappers, tasks>>

\* The thread that issues the commands.
CommandThread == "t1"

\* Commands issued one after another in one execution context.
NextMongo ==
    \/ NewTracer(CommandThread, FreshContext, SAMPLER_KEY)
    \/ \E command_name \in Commands : MongoStarted(CommandThread, command_name)
    \/ \E event \in CommandEvents : MongoCompleted(CommandThread, event)

SpecMongo == Init /\ [][NextMongo]_vars

\* ------------------------------------------------------------ redis calls
\* redis MODULE_NAME, the prefix of the span name.
REDIS == "[redis]"

\* What the original redis method does: return its result or raise.
Originals == {"result", "ValueError"}

\* `with tracer.start_span(name) as span:` up to the call of the original
\* method: the span is started and named and the statement is normalised
\* and tagged on it. stmt is what _normalize_stmt raises, "none" when it
\* returns (on Python 3 it joins the bytes of an encoded str argument with
\* ' ', on Python 2 it cannot encode a str with a byte outside ASCII): when
\* it raises, the span's kind is never set and the original never invoked.
scoped_span(m, c, tracer, name, stmt) ==
    set_name_and_kind(m, start_span(m, c, tracer), name,
                      IF stmt = "none" THEN "CLIENT" ELSE "UNSPECIFIED")

\* A pipeline execute() that opens its span whatever the command stack holds.
tracing_execute_always(m, c, tracer, empty, stmt) ==
    scoped_span(m, c, tracer, <<REDIS, "MULTI">>, stmt)

\* _patch_pipe_execute: tracing_execute, up to the call of the original.
tracing_execute(m, c, tracer, empty, stmt) ==
    IF empty THEN m
    ELSE scoped_span(m, c, tracer, <<REDIS, "MULTI">>, stmt)

\* _patch_pipe_execute: tracing_immediate_execute_command, up to the call
\* of the original.
tracing_immediate_execute_command(m, c, tracer, command, stmt) ==
    scoped_span(m, c, tracer, <<REDIS, command>>, stmt)

\* _patch_pubsub_parse_response: tracing_parse_response, up to the call of
\* the original; its statement is the empty string.
tracing_parse_response(m, c, tracer) ==
    scoped_span(m, c, tracer, <<REDIS, "SUB">>, "none")

\* _patch_obj_execute_command: tracing_execute_command, up to the call of
\* the original.
tracing_execute_command(m, c, tracer, command, stmt) ==
    scoped_span(m, c, tracer, <<REDIS, command>>, stmt)

\* The patched methods, each with the object that carries it and the
\* command or command stack it is called with. _patch_pubsub patches both
\* parse_response and execute_command of a pubsub object.
RedisMethods ==
    {[on |-> "StrictRedis", op |-> "execute_command", arg |-> "GET"],
     [on |-> "pipe", op |-> "execute", arg |-> "MULTI"],
     [on |-> "pipe", op |-> "execute", arg |-> "empty"],
     [on |-> "pipe", op |-> "immediate_execute_command", arg |-> "WATCH"],
     [on |-> "pubsub", op |-> "parse_response", arg |-> "SUB"],
     [on |-> "pubsub", op |-> "execute_command", arg |-> "GET"]}

\* The wrapper of a patched method, run with the tracer its patch function
\* looked up, as far as the call of the original method.
wrapper(m, c, method, stmt) ==
    LET tracer == captured[method.on]
    IN  CASE method.op = "execute_command" ->
                tracing_execute_command(m, c, tracer, method.arg, stmt)
          [] method.op = "execute" ->
                tracing_execute(m, c, tracer, method.arg = "empty", stmt)
          [] method.op = "immediate_execute_command" ->
                tracing_immediate_execute_command(m, c, tracer, method.arg, stmt)
          [] method.op = "parse_response" ->
                tracing_parse_response(m, c, tracer)

\* What leaves the wrapper's with block: the exception of the statement, or
\* what the original returned or raised.
LeftBy(call, outcome) == IF call.stmt = "none" THEN outcome ELSE call.stmt

\* A wrapper whose span is ended after the original returned, without a
\* with block around the call.
wrapper_exit_unscoped(m, c, call, outcome) ==
    IF call.kind = "execute" /\ call.arg = "empty" THEN m
    ELSE IF LeftBy(call, outcome) = "result" THEN end_span(m, c, captured[call.on])
    ELSE m

\* The end of the wrapper's with block, on every exit path: the span is
\* ended on the wrapper's tracer. The empty execute() had no with block.
wrapper_exit(m, c, call, outcome) ==
    IF call.kind = "execute" /\ call.arg = "empty" THEN m
    ELSE end_span(m, c, captured[call.on])

\* What the wrapper hands its caller: an exception passes through, the
\* original's value is returned, except by tracing_immediate_execute_command,
\* which has no return statement.
wrapper_return(call, outcome) ==
    IF LeftBy(call, outcome) = "result" /\ call.kind = "immediate_execute_command"
    THEN "None"
    ELSE LeftBy(call, outcome)

\* trace_integration(): StrictRedis.execute_command, pipeline and pubsub are
\* replaced; the execute_command wrapper keeps the tracer the patching
\* thread has now.
RedisTraceIntegration(t) ==
    /\ captured["StrictRedis"] = Absent
    /\ captured' = [captured EXCEPT !["StrictRedis"] = get_opencensus_tracer(Mem, Ctx(t))]
    /\ Did("trace_integration", t, 0)
    /\ UNCHANGED <<patched, store, dicts, cur, snap, flowVars, io, calls, stackctx, tracerSet, wrappers>>

\* client.pipeline() or client.pubsub() on the patched class: the new
\* object's methods are wrapped with the tracer the calling thread has now.
RedisObject(t, o) ==
    /\ captured["StrictRedis"] # Absent
    /\ o # "StrictRedis"
    /\ captured[o] = Absent
    /\ captured' = [captured EXCEPT ![o] = get_opencensus_tracer(Mem, Ctx(t))]
    /\ Did(o, t, 0)
    /\ UNCHANGED <<patched, store, dicts, cur, snap, flowVars, io, calls, stackctx, tracerSet, wrappers>>

\* The redis calls thread t has made.
CallsBy(t) == {i \in DOMAIN calls : calls[i].by = t}

\* Thread t is inside a redis call whose original has not returned.
Waiting(t) == \E i \in DOMAIN calls : calls[i].by = t /\ calls[i].state = "pending"

\* Thread t calls a patched method: the wrapper runs up to the original
\* method, which then waits for the redis server while other threads run.
RedisCall(t, method, stmt) ==
    /\ ~Waiting(t)
    /\ Cardinality(CallsBy(t)) < MaxRedisCalls
    /\ Len(spans) < MaxSpans
    /\ captured[method.on] # Absent
    /\ \E c \in {Ctx(t)} :
       \E m \in {wrapper(Mem, c, method, stmt)} :
            /\ Commit(m, snap)
            /\ started' = Started(Mem, m, t, None)
            /\ calls' = Append(calls,
                    [kind |-> method.op, on |-> method.on, by |-> t, arg |-> method.arg,
                     stmt |-> stmt, state |-> "pending",
                     original |-> "none", invoked |-> FALSE, caller |-> "none",
                     prev |-> get_current_span(Mem, c),
                     after |-> get_current_span(m, c),
                     span |-> IF Len(m.spans) > Len(spans) THEN Len(m.spans) ELSE None,
                     exports |-> 0])
    /\ Did(method.op, t, Len(calls) + 1)
    /\ UNCHANGED <<stackctx, captured, io, patched, cur, contexts, pc, info, lstack, tracerSet, wrappers, tasks>>

\* The original of call i returns or raises (or was never reached, the
\* statement having raised): the with block is left and the wrapper hands
\* the outcome to its caller.
RedisReturn(i, outcome) ==
    /\ i \in DOMAIN calls /\ calls[i].state = "pending"
    /\ calls[i].stmt = "none" \/ outcome = "result"
    /\ \E c \in {Ctx(calls[i].by)} :
       \E m \in {wrapper_exit(Mem, c, calls[i], outcome)} :
            /\ Commit(m, snap)
            /\ calls' = [calls EXCEPT ![i] =
                    [@ EXCEPT !.state = "done",
                              !.original = IF calls[i].stmt = "none" THEN outcome ELSE "none",
                              !.invoked = (calls[i].stmt = "none"),
                              !.caller = wrapper_return(calls[i], outcome),
                              !.after = get_current_span(m, c),
                              !.exports = Len(m.exported) - Len(exported)]]
    /\ Did("return", calls[i].by, i)
    /\ UNCHANGED <<stackctx, captured, io, patched, cur, contexts, pc, info, lstack, started,
                   tracerSet, wrappers, tasks>>

\* What _normalize_stmt raises when it raises: TypeError on Python 3,
\* UnicodeDecodeError on Python 2.
StmtRaises == {"TypeError", "UnicodeDecodeError"}

\* The methods whose wrapper normalises a statement inside the span.
Normalized == {method \in RedisMethods : method.op # "parse_response" /\ method.arg # "empty"}

\* One interpreter runs every call of a behaviour: on Python 3 every
\* statement that is normalised raises TypeError, the command name being a
\* str, and only on Python 2 does one return or raise UnicodeDecodeError.
SamePython(method, stmt) ==
    method \in Normalized =>
        \A j \in DOMAIN calls :
            calls[j].kind # "parse_response" /\ calls[j].arg # "empty" =>
                (calls[j].stmt = "TypeError") = (stmt = "TypeError")

\* The thread that patches redis and makes the calls.
RedisThread == "t1"

\* One thread patches redis, creates the objects and calls them.
NextRedis ==
    \/ ~Waiting(RedisThread) /\ NewTracer(RedisThread, FreshContext, SAMPLER_KEY)
    \/ ~Waiting(RedisThread) /\ RedisTraceIntegration(RedisThread)
    \/ \E o \in RedisObjects : ~Waiting(RedisThread) /\ RedisObject(RedisThread, o)
    \/ ~Waiting(RedisThread) /\ Len(spans) < MaxEnclosing /\ PoolStartSpan(RedisThread)
    \/ ~Waiting(RedisThread) /\ PoolEndSpan(RedisThread)
    \/ \E method \in RedisMethods :
            SamePython(method, "none") /\ RedisCall(RedisThread, method, "none")
    \/ \E method \in Normalized, stmt \in StmtRaises :
            SamePython(method, stmt) /\ RedisCall(RedisThread, method, stmt)
    \/ \E i \in DOMAIN calls, outcome \in Originals : RedisReturn(i, outcome)

SpecRedis == Init /\ [][NextRedis]_vars

\* The threads that call the patched objects: the patching thread and a
\* second one that runs while the first waits for the redis server.
RedisThreads == {RedisThread, SecondThread}

\* The same with a second thread calling the objects the first one made.
NextRedisThreads ==
    \/ ~Waiting(RedisThread) /\ NewTracer(RedisThread, FreshContext, SAMPLER_KEY)
    \/ ~Waiting(RedisThread) /\ RedisTraceIntegration(RedisThread)
    \/ \E o \in RedisObjects : ~Waiting(RedisThread) /\ RedisObject(RedisThread, o)
    \/ ~Waiting(RedisThread) /\ Len(spans) < MaxEnclosing /\ PoolStartSpan(RedisThread)
    \/ ~Waiting(RedisThread) /\ PoolEndSpan(RedisThread)
    \/ \E t \in RedisThreads, method \in RedisMethods :
            SamePython(method, "none") /\ RedisCall(t, method, "none")
    \/ \E t \in RedisThreads, method \in Normalized, stmt \in StmtRaises :
            SamePython(method, stmt) /\ RedisCall(t, method, stmt)
    \/ \E i \in DOMAIN calls, outcome \in Originals : RedisReturn(i, outcome)

SpecRedisThreads == Init /\ [][NextRedisThreads]_vars

\* ------------------------------------------- the redis integration applied again
\* A method wrapped once per entry of layers, each patch function having
\* wrapped what the attribute held when it ran, as far as the call of the
\* original: the wrapper installed last runs first and calls the one below
\* it inside its with block; under the innermost wrapper is the original
\* method. A wrapper whose statement raises calls nothing below it.
RECURSIVE stacked(_, _, _, _, _)
stacked(m, c, layers, method, stmt) ==
    IF layers = <<>> \/ (method.op = "execute" /\ method.arg = "empty")
    THEN m
    ELSE LET tracer == layers[Len(layers)]
             below == SubSeq(layers, 1, Len(layers) - 1)
             name == <<REDIS, IF method.op = "execute" THEN "MULTI" ELSE method.arg>>
             m1 == scoped_span(m, c, tracer, name, stmt)
         IN  IF stmt = "none" THEN stacked(m1, c, below, method, stmt) ELSE m1

\* The with blocks a call of a method with these layers is inside when the
\* original is called, or when the statement has raised.
Blocks(layers, method, stmt) ==
    IF method.op = "execute" /\ method.arg = "empty" THEN 0
    ELSE IF stmt = "none" THEN Len(layers) ELSE 1

\* The with blocks of the n outermost layers are left, the innermost of
\* them first, each ending a span on its own tracer.
RECURSIVE stacked_exit(_, _, _, _)
stacked_exit(m, c, layers, n) ==
    IF n = 0 THEN m
    ELSE stacked_exit(end_span(m, c, layers[Len(layers) - n + 1]), c, layers, n - 1)

\* trace_integration(), any number of times: patch_redis_classes wraps the
\* execute_command the class has now, with the tracer current now.
TraceIntegrationAgain(t) ==
    /\ Len(wrappers["StrictRedis"]) < MaxApplied
    /\ wrappers' = [wrappers EXCEPT !["StrictRedis"] = Append(@, get_opencensus_tracer(Mem, Ctx(t)))]
    /\ Did("trace_integration", t, 0)
    /\ UNCHANGED <<patched, store, dicts, cur, snap, flowVars, io, calls, stackctx, captured,
                   tracerSet>>

\* client.pipeline() or client.pubsub(): each application of the integration
\* wrapped the factory, and every factory wrapper patches the new object
\* once, with the tracer current now.
StackedObject(t, o) ==
    /\ wrappers["StrictRedis"] # <<>>
    /\ o # "StrictRedis"
    /\ wrappers[o] = <<>>
    /\ wrappers' = [wrappers EXCEPT ![o] =
            [i \in 1..Len(wrappers["StrictRedis"]) |-> get_opencensus_tracer(Mem, Ctx(t))]]
    /\ Did(o, t, 0)
    /\ UNCHANGED <<patched, store, dicts, cur, snap, flowVars, io, calls, stackctx, captured,
                   tracerSet>>

\* Thread t calls a method that was patched once or more: every wrapper
\* runs up to the call of the layer below it, and the original then waits
\* for the redis server inside all the with blocks.
StackedCall(t, method, stmt) ==
    /\ ~Waiting(t)
    /\ Cardinality(CallsBy(t)) < MaxRedisCalls
    /\ Len(spans) + MaxApplied <= MaxSpans
    /\ wrappers[method.on] # <<>>
    /\ \E c \in {Ctx(t)} :
       \E m \in {stacked(Mem, c, wrappers[method.on], method, stmt)} :
            /\ Commit(m, snap)
            /\ started' = started \o [i \in 1..(Len(m.spans) - Len(spans)) |->
                                        [by |-> t, lparent |-> None]]
            /\ calls' = Append(calls,
                    [kind |-> method.op, on |-> method.on, by |-> t, arg |-> method.arg,
                     stmt |-> stmt, state |-> "pending",
                     applied |-> Len(wrappers[method.on]),
                     entered |-> Blocks(wrappers[method.on], method, stmt),
                     traced |-> \A i \in DOMAIN wrappers[method.on] :
                                    wrappers[method.on][i] # NoopTracer,
                     invoked |-> FALSE, caller |-> "none",
                     spans |-> Len(m.spans) - Len(spans),
                     exports |-> 0])
    /\ Did(method.op, t, Len(calls) + 1)
    /\ UNCHANGED <<stackctx, captured, io, wrappers, patched, cur, contexts, pc, info, lstack,
                   tracerSet, tasks>>

\* The original of call i returns or raises (or was never reached): every
\* with block the call is inside is left, the innermost first.
StackedReturn(i, outcome) ==
    /\ i \in DOMAIN calls /\ calls[i].state = "pending"
    /\ calls[i].stmt = "none" \/ outcome = "result"
    /\ \E c \in {Ctx(calls[i].by)} :
       \E m \in {stacked_exit(Mem, c, wrappers[calls[i].on], calls[i].entered)} :
            /\ Commit(m, snap)
            /\ calls' = [calls EXCEPT ![i] =
                    [@ EXCEPT !.state = "done",
                              !.invoked = (calls[i].stmt = "none"),
                              !.caller = wrapper_return(calls[i], outcome),
                              !.exports = Len(m.exported) - Len(exported)]]
    /\ Did("return", calls[i].by, i)
    /\ UNCHANGED <<stackctx, captured, io, wrappers, patched, cur, contexts, pc, info, lstack,
                   started, tracerSet, tasks>>

NextTwice ==
    \/ ~Waiting(RedisThread) /\ NewTracer(RedisThread, FreshContext, SAMPLER_KEY)
    \/ ~Waiting(RedisThread) /\ TraceIntegrationAgain(RedisThread)
    \/ \E o \in RedisObjects : ~Waiting(RedisThread) /\ StackedObject(RedisThread, o)
    \/ \E t \in RedisThreads, method \in RedisMethods :
            SamePython(method, "none") /\ StackedCall(t, method, "none")
    \/ \E t \in RedisThreads, method \in Normalized, stmt \in StmtRaises :
            SamePython(method, stmt) /\ StackedCall(t, method, stmt)
    \/ \E i \in DOMAIN calls, outcome \in Originals : StackedReturn(i, outcome)

SpecTwice == Init /\ [][NextTwice]_vars

\* ------------------------------------------- ThreadSafeStackContext races
\* A contexts list that is one plain list shared by every thread, as in
\* Tornado's own StackContext.
SharedContexts(t) == "t1"

\* ThreadSafeStackContext.__init__: self.contexts is a threading.local, so
\* each thread appends to and pops from a list of its own.
LocalContexts(t) == t

\* enter(), first statement: context = self.context_factory()
EnterCreate(t) ==
    /\ stackctx.at[t] = "idle"
    /\ Len(stackctx.objs) < MaxEnters
    /\ stackctx' = [stackctx EXCEPT
            !.objs = Append(@, [by |-> t, entered |-> FALSE, popped_by |-> "none",
                                due |-> 0, exited |-> FALSE]),
            !.context[t] = Len(stackctx.objs) + 1,
            !.at[t] = "created"]
    /\ Did("context_factory", t, Len(stackctx.objs) + 1)
    /\ UNCHANGED <<patched, store, dicts, cur, snap, flowVars, io, calls, captured, tracerSet, wrappers>>

\* enter(), second statement: self.contexts.append(context)
EnterAppend(t) ==
    /\ stackctx.at[t] = "created"
    /\ stackctx' = [stackctx EXCEPT
            !.contexts[LocalContexts(t)] = Append(@, stackctx.context[t]),
            !.at[t] = "appended"]
    /\ Did("append", t, stackctx.context[t])
    /\ UNCHANGED <<patched, store, dicts, cur, snap, flowVars, io, calls, captured, tracerSet, wrappers>>

\* enter(), third statement: context.__enter__()
EnterEnter(t) ==
    /\ stackctx.at[t] = "appended"
    /\ stackctx' = [stackctx EXCEPT
            !.objs[stackctx.context[t]].entered = TRUE,
            !.context[t] = 0,
            !.at[t] = "idle"]
    /\ Did("__enter__", t, stackctx.context[t])
    /\ UNCHANGED <<patched, store, dicts, cur, snap, flowVars, io, calls, captured, tracerSet, wrappers>>

\* The enters of thread t that no exit of t has matched yet.
Entered(t) ==
    Cardinality({i \in DOMAIN stackctx.objs : stackctx.objs[i].by = t}) -
    Cardinality({i \in DOMAIN stackctx.objs : stackctx.objs[i].popped_by = t})

\* The context object thread t entered last among those it has not popped,
\* 0 if there is none.
MostRecent(t) ==
    LET mine == {i \in DOMAIN stackctx.objs :
                    /\ stackctx.objs[i].by = t /\ stackctx.objs[i].entered
                    /\ stackctx.objs[i].popped_by = "none"}
    IN  IF mine = {} THEN 0 ELSE CHOOSE i \in mine : \A j \in mine : j <= i

\* exit(), first statement: context = self.contexts.pop(), by a thread that
\* has entered and not yet exited.
ExitPop(t) ==
    /\ stackctx.at[t] = "idle"
    /\ Entered(t) > 0
    /\ stackctx.contexts[LocalContexts(t)] # <<>>
    /\ \E list \in {stackctx.contexts[LocalContexts(t)]} :
            /\ stackctx' = [stackctx EXCEPT
                    !.contexts[LocalContexts(t)] = SubSeq(list, 1, Len(list) - 1),
                    !.objs[list[Len(list)]].popped_by = t,
                    !.objs[list[Len(list)]].due = MostRecent(t),
                    !.context[t] = list[Len(list)],
                    !.at[t] = "popped"]
            /\ Did("pop", t, list[Len(list)])
    /\ UNCHANGED <<patched, store, dicts, cur, snap, flowVars, io, calls, captured, tracerSet, wrappers>>

\* exit(), second statement: context.__exit__(type, value, traceback)
ExitExit(t) ==
    /\ stackctx.at[t] = "popped"
    /\ stackctx' = [stackctx EXCEPT
            !.objs[stackctx.context[t]].exited = TRUE,
            !.context[t] = 0,
            !.at[t] = "idle"]
    /\ Did("__exit__", t, stackctx.context[t])
    /\ UNCHANGED <<patched, store, dicts, cur, snap, flowVars, io, calls, captured, tracerSet, wrappers>>

\* Several threads enter and exit one ThreadSafeStackContext, interleaved
\* statement by statement.
NextStack ==
    \E t \in Threads :
        \/ EnterCreate(t)
        \/ EnterAppend(t)
        \/ EnterEnter(t)
        \/ ExitPop(t)
        \/ ExitExit(t)

SpecStack == Init /\ [][NextStack]_vars

\* ------------------------------------------------- pymongo query filters
\* Python values of a filter: None, a scalar, a list, a dict.
PyNone == [type |-> "None"]
Scalar(n) == [type |-> "scalar", n |-> n]
List(items) == [type |-> "list", items |-> items]
Dict(map) == [type |-> "dict", map |-> map]
\* The string '?' and the empty dict {}.
Q == [type |-> "str", s |-> "?"]
EmptyDict == Dict(<<>>)

IsContainer(v) == v.type \in {"list", "dict"}

\* A _normalize_filter whose else branch keeps the value of the key.
RECURSIVE normalize_filter_keeps_values(_)
normalize_filter_keeps_values(f) ==
    IF f.type = "None" THEN EmptyDict
    ELSE IF f.type = "list"
    THEN List([i \in DOMAIN f.items |-> normalize_filter_keeps_values(f.items[i])])
    ELSE IF f.type = "dict"
    THEN Dict([k \in DOMAIN f.map |->
                IF k = "$in" \/ k = "$nin" THEN Q
                ELSE IF IsContainer(f.map[k]) THEN normalize_filter_keeps_values(f.map[k])
                ELSE f.map[k]])
    ELSE EmptyDict

\* pymongo/trace.py _normalize_filter
RECURSIVE _normalize_filter(_)
_normalize_filter(f) ==
    IF f.type = "None" THEN EmptyDict
    ELSE IF f.type = "list"
    THEN List([i \in DOMAIN f.items |-> _normalize_filter(f.items[i])])
    ELSE IF f.type = "dict"
    THEN Dict([k \in DOMAIN f.map |->
                IF k = "$in" \/ k = "$nin" THEN Q
                ELSE IF IsContainer(f.map[k]) THEN _normalize_filter(f.map[k])
                ELSE Q])
    ELSE EmptyDict

\* Lists of at most MaxItems elements of S, dicts of at most n keys with
\* values in S.
ListsOf(S) == {List(items) : items \in UNION {[1..n -> S] : n \in 0..MaxItems}}
FilterKeys == {"a", "$in", "$nin"}
DictsOf(S, n) ==
    {Dict(map) : map \in UNION {[K -> S] : K \in {K \in SUBSET FilterKeys : Cardinality(K) <= n}}}

\* A document with one key.
Doc(k, v) == Dict([j \in {k} |-> v])

\* The filters test_normalize_filter lists.
TestFilters ==
    {PyNone,
     Doc("team", Scalar(10)),
     Doc("age", Doc("$gt", Scalar(20))),
     Doc("_id", Doc("$in", List(<<Scalar(1), Scalar(2), Scalar(3)>>))),
     Doc("_id", Doc("$nin", List(<<Scalar(1), Scalar(2), Scalar(3)>>))),
     Scalar(20),
     Dict([k \in {"status", "$or"} |->
            IF k = "status" THEN Scalar(10)
            ELSE List(<<Doc("age", Doc("$lt", Scalar(30))), Doc("type", Scalar(1))>>)])}

\* Filters: leaves, lists and documents of leaves, lists of leaves and
\* one-key documents, documents of all those, and the test's filters.
Leaves == {PyNone, Scalar(20), Scalar(30)}
Inner == Leaves \cup ListsOf(Leaves) \cup DictsOf(Leaves, MaxKeys)
Filters ==
    Inner \cup ListsOf(Leaves \cup DictsOf(Leaves, 1)) \cup DictsOf(Inner, MaxKeys + 1)
          \cup TestFilters

\* The filter with every scalar leaf replaced by one fixed scalar: filters
\* with the same keys and nesting that differ only in leaf values have the
\* same image.
RECURSIVE SameShape(_)
SameShape(f) ==
    IF f.type = "list" THEN List([i \in DOMAIN f.items |-> SameShape(f.items[i])])
    ELSE IF f.type = "dict" THEN Dict([k \in DOMAIN f.map |-> SameShape(f.map[k])])
    ELSE IF f.type = "scalar" THEN Scalar(0)
    ELSE f

\* The scalars that occur anywhere in a value.
RECURSIVE ScalarsIn(_)
ScalarsIn(v) ==
    IF v.type = "list" THEN UNION {ScalarsIn(v.items[i]) : i \in DOMAIN v.items}
    ELSE IF v.type = "dict" THEN UNION {ScalarsIn(v.map[k]) : k \in DOMAIN v.map}
    ELSE IF v.type = "scalar" THEN {v.n}
    ELSE {}

\* _set_query_metadata is about to normalise the query of a command.
InitFilter ==
    /\ Fresh
    /\ io \in {[fn |-> "_normalize_filter", arg |-> f, done |-> FALSE, out |-> PyNone] :
                    f \in Filters}

\* _set_query_metadata: nq = _normalize_filter(query)
NormalizeFilter ==
    /\ io.fn = "_normalize_filter" /\ ~io.done
    /\ io' = [io EXCEPT !.done = TRUE, !.out = _normalize_filter(io.arg)]
    /\ Did("_normalize_filter", "none", 0)
    /\ UNCHANGED <<patched, store, dicts, cur, snap, flowVars, calls, stackctx, captured, tracerSet, wrappers>>

SpecFilter == InitFilter /\ [][NormalizeFilter]_vars

\* ------------------------------------------------------ redis statements
\* Python values of a command: a str, a unicode (a str again on Python 3)
\* or an int, with its text written as its UTF-8 bytes.
PyStr(s) == [type |-> "str", s |-> s]
PyUnicode(s) == [type |-> "unicode", s |-> s]
PyInt(s) == [type |-> "int", s |-> s]
\* Texts with a character outside ASCII.
NonAscii == {"caf\\xc3\\xa9"}
\* isinstance(arg, six.string_types)
IsString(arg) == arg.type \in {"str", "unicode"}
\* arg.encode('utf-8') raises UnicodeDecodeError: a Python 2 str is first
\* decoded as ASCII, which fails on a byte outside ASCII.
EncodeRaises(arg, python) == python = 2 /\ arg.type = "str" /\ arg.s \in NonAscii
\* The bytes arg.encode('utf-8') gives on Python 3; on Python 2 it is a str.
Encode(arg, python) == [type |-> IF python = 3 THEN "bytes" ELSE "str", s |-> arg.s]

\* sep.join(items), as the sequence of the pieces of the resulting text;
\* TypeError if an item is not a str.
RECURSIVE Pieces(_, _)
Pieces(sep, texts) ==
    IF Len(texts) = 0 THEN <<>>
    ELSE IF Len(texts) = 1 THEN texts[1]
    ELSE texts[1] \o <<sep>> \o Pieces(sep, Tail(texts))

Join(sep, items) ==
    IF \E i \in DOMAIN items : items[i].type # "str"
    THEN [raised |-> "TypeError", text |-> <<>>]
    ELSE [raised |-> "none", text |-> Pieces(sep, [i \in DOMAIN items |-> <<items[i].s>>])]

\* redis/trace.py _normalize_stmt: every argument is encoded or turned into
\* a str before the join.
_normalize_stmt(args, python) ==
    IF \E i \in DOMAIN args : IsString(args[i]) /\ EncodeRaises(args[i], python)
    THEN [raised |-> "UnicodeDecodeError", text |-> <<>>]
    ELSE Join(" ", [i \in DOMAIN args |->
                IF IsString(args[i]) THEN Encode(args[i], python) ELSE PyStr(args[i].s)])

\* redis/trace.py _normalize_stmts: ';'.join of the statements; the
\* exception of the first statement that raises leaves it.
_normalize_stmts(command_stack, python) ==
    LET commands == [i \in DOMAIN command_stack |-> _normalize_stmt(command_stack[i], python)]
        raising == {i \in DOMAIN commands : commands[i].raised # "none"}
    IN  IF raising # {}
        THEN [raised |-> commands[CHOOSE i \in raising : \A j \in raising : i <= j].raised,
              text |-> <<>>]
        ELSE [raised |-> "none",
              text |-> Pieces(";", [i \in DOMAIN commands |-> commands[i].text])]

\* Commands: a name and at most MaxArgs arguments, as the tests issue them.
CommandNames == {"GET", "LPUSH"}
CommandArgs == {PyStr("my:keys"), PyInt("1"), PyInt("3")}
                   \cup {PyStr(s) : s \in NonAscii} \cup {PyUnicode(s) : s \in NonAscii}
RedisCommands ==
    {<<PyStr(name)>> \o rest :
        name \in CommandNames, rest \in UNION {[1..n -> CommandArgs] : n \in 0..MaxArgs}}
\* Command stacks of a pipeline, of at most two commands.
Stacks == {<<>>} \cup {<<c>> : c \in RedisCommands} \cup {<<c, d>> : c, d \in RedisCommands}
Pythons == {2, 3}

\* A wrapper is about to normalise the command or the command stack.
InitStmt ==
    /\ Fresh
    /\ \E python \in Pythons :
        \/ io \in {[fn |-> "_normalize_stmt", python |-> python, arg |-> c, done |-> FALSE,
                    out |-> [raised |-> "none", text |-> <<>>]] : c \in RedisCommands}
        \/ io \in {[fn |-> "_normalize_stmts", python |-> python, arg |-> st, done |-> FALSE,
                    out |-> [raised |-> "none", text |-> <<>>]] : st \in Stacks}

\* tracing_execute_command: _normalize_stmt(reported_args)
NormalizeStmt ==
    /\ io.fn = "_normalize_stmt" /\ ~io.done
    /\ io' = [io EXCEPT !.done = TRUE, !.out = _normalize_stmt(io.arg, io.python)]
    /\ Did("_normalize_stmt", "none", 0)
    /\ UNCHANGED <<patched, store, dicts, cur, snap, flowVars, calls, stackctx, captured, tracerSet, wrappers>>

\* tracing_execute: _normalize_stmts(pipe.command_stack)
NormalizeStmts ==
    /\ io.fn = "_normalize_stmts" /\ ~io.done
    /\ io' = [io EXCEPT !.done = TRUE, !.out = _normalize_stmts(io.arg, io.python)]
    /\ Did("_normalize_stmts", "none", 0)
    /\ UNCHANGED <<patched, store, dicts, cur, snap, flowVars, calls, stackctx, captured, tracerSet, wrappers>>

NextStmt == NormalizeStmt \/ NormalizeStmts

SpecStmt == InitStmt /\ [][NextStmt]_vars

\* ---------------------------------------------------------------- claims
\* C3: on the default thread-bound backend, a setter, clean or clear run by
\* one thread never changes what the three getters return in another thread.
ThreadsAreIsolated ==
    [][\A u \in Threads :
          u # last'.t => Getters(Mem, Ctx(u))' = Getters(Mem, Ctx(u))]_vars

\* C3 witness: t1 has just cleared its context while t2 holds a tracer, a
\* span and a non-empty attribute map.
ThreadsAreIsolatedWitness ==
    /\ last.op = "clear" /\ last.t = "t1" /\ last.ret = 3
    /\ Getters(Mem, Ctx("t2")).tracer = 1
    /\ Getters(Mem, Ctx("t2")).span = 1
    /\ Getters(Mem, Ctx("t2")).attrs.map # EmptyMap

\* C5: where no tracer has been set since the unit started or was last
\* cleaned or cleared, get_opencensus_tracer() returns a no-op tracer, and
\* the call changes no field of any context.
UnsetTracerIsNoop ==
    /\ [](\A t \in Threads :
            ~tracerSet[Ctx(t)] => get_opencensus_tracer(Mem, Ctx(t)) = NoopTracer)
    /\ [](last.op = "get_opencensus_tracer" /\ ~tracerSet[Ctx(last.t)]
            => last.ret = NoopTracer)
    /\ [][last'.op = "get_opencensus_tracer" => store' = store /\ dicts' = dicts]_vars

\* C5 witness: the getter is called, and returns the no-op tracer, in a unit
\* that was cleaned (its attrs are the empty map clean() installs).
UnsetTracerIsNoopWitness ==
    /\ last.op = "get_opencensus_tracer" /\ last.ret = NoopTracer
    /\ ~tracerSet[Ctx(last.t)]
    /\ store[Ctx(last.t)].attrs # Absent

\* C6: after clear() is called in an execution unit, whatever its previous
\* state and whichever store the unit has (a thread-local or a request
\* context, where the call raises), the getters return a no-op tracer, no
\* span and an empty attribute map.
ClearGivesEmptyMap ==
    last.op \in {"clear", "clear_raised"} =>
        Getters(Mem, Ctx(last.t)) =
            [tracer |-> NoopTracer, span |-> None,
             attrs |-> [none |-> FALSE, map |-> EmptyMap]]

\* The attribute map a snapshot holds, as get_opencensus_attrs would show it.
SnapAttrsResult ==
    [none |-> snap.attrs = None,
     map |-> IF snap.attrs = None THEN EmptyMap ELSE dicts[snap.attrs]]

\* C7 as claimed: after set_opencensus_full_context(*snapshot) the three
\* getters of the restoring unit return the snapshot's three values.
RestoreIsVerbatim ==
    last.op = "set_opencensus_full_context" =>
        Getters(Mem, Ctx(last.t)) =
            [tracer |-> snap.tracer, span |-> snap.span, attrs |-> SnapAttrsResult]

\* C7 amended: the tracer and the span are the snapshot's; the attrs are the
\* snapshot's dict object when it holds at least one key, and otherwise
\* (snapshot attrs None or empty) a new empty dict.
RestoreInstallsSnapshot ==
    last.op = "set_opencensus_full_context" =>
        /\ get_opencensus_tracer(Mem, Ctx(last.t)) = snap.tracer
        /\ get_current_span(Mem, Ctx(last.t)) = snap.span
        /\ IF snap.attrs # None /\ dicts[snap.attrs] # EmptyMap
           THEN get_opencensus_attrs(Mem, Ctx(last.t)) = snap.attrs
           ELSE /\ AttrsResult(Mem, Ctx(last.t)) = [none |-> FALSE, map |-> EmptyMap]
                /\ get_opencensus_attrs(Mem, Ctx(last.t)) # snap.attrs

\* C7 witness: a snapshot holding a tracer, a span and a non-empty map has
\* just been restored in a unit other than the one that took it.
RestoreInstallsSnapshotWitness ==
    /\ last.op = "set_opencensus_full_context"
    /\ last.t # snap.by
    /\ snap.tracer = 1 /\ snap.span = 1
    /\ snap.attrs # None /\ dicts[snap.attrs] # EmptyMap

\* The context object of request r while its stack context is entered.
RequestCtx(r) == _get_context(patched, r, IOLoop)

\* C1: a span started while span A is the active span of the request (the
\* span the request started last and has not ended) has A's span id as its
\* parent_span_id and A's trace id, after any earlier starts and ends and
\* across coroutine suspensions.
ChildOfActiveSpan ==
    \A i \in DOMAIN spans :
        started[i].lparent # None =>
            /\ spans[i].parent_span_id = spans[started[i].lparent].span_id
            /\ spans[i].trace_id = spans[started[i].lparent].trace_id

\* C1 witness: B is started under A after A stayed open across a suspension
\* during which another request started a span.
ChildOfActiveSpanWitness ==
    \E i \in DOMAIN spans :
        /\ started[i].lparent # None
        /\ \E j \in DOMAIN spans :
            started[i].lparent < j /\ j < i /\ started[j].by # started[i].by

\* C2: after the span a request started last is ended, get_current_span()
\* is the span that was active when it was started; after the request span
\* itself has been ended by the finish hooks it is none.
EndRestoresPrevious ==
    /\ last.op = "end_span" =>
            get_current_span(Mem, Ctx(last.t)) = started[last.ret].lparent
    /\ \A r \in Requests :
            pc[r] = "done" /\ info[r].outcome # "http4xx" =>
                get_current_span(Mem, RequestCtx(r)) = None

\* C2 witness: a child span that stayed open across a suspension, during
\* which another request started a span, has just been ended and the
\* request span is the current span again.
EndRestoresPreviousWitness ==
    /\ last.op = "end_span"
    /\ get_current_span(Mem, Ctx(last.t)) = info[started[last.ret].by].root
    /\ \E j \in DOMAIN spans : j > last.ret /\ started[j].by # started[last.ret].by

\* C4: while a request's stack context is entered, the tracer and the
\* current span are the ones last set inside that request's context: the
\* tracer made for the request, and the span its own starts and ends left.
RequestsSeeOwnContext ==
    \A r \in Requests :
        cur[IOLoop] = r =>
            /\ get_opencensus_tracer(Mem, Ctx(IOLoop)) = info[r].tracer
            /\ get_current_span(Mem, Ctx(IOLoop)) = Top(lstack[r])

\* C4 witness: r1 runs again after a suspension while r2, which started
\* later and has its own tracer and spans, is suspended.
RequestsSeeOwnContextWitness ==
    /\ cur[IOLoop] = "r1" /\ pc["r2"] = "suspended"
    /\ info["r1"].tracer # None
    /\ info["r2"].tracer > info["r1"].tracer
    /\ Len(lstack["r2"]) > 1

\* The number of export() calls whose batch holds span i.
Batches(i) ==
    Cardinality({b \in DOMAIN exported : \E j \in DOMAIN exported[b] : exported[b][j] = i})

\* C10: a traced (sampled) request's tracer is never finished twice and its
\* request span is never exported twice; once the request has completed
\* normally or with an unhandled exception, both happened exactly once.
FinishedExactlyOnce ==
    \A r \in Requests :
        info[r].tracer # None =>
            /\ tracers[info[r].tracer].finish_calls <= 1
            /\ Batches(info[r].root) <= 1
            /\ pc[r] = "done" /\ info[r].outcome \in {"ok", "error"} =>
                    /\ tracers[info[r].tracer].finish_calls = 1
                    /\ Batches(info[r].root) = 1

\* C10 witness: a handler raised an unhandled exception, log_exception and
\* on_finish both ran, and the request span was exported once.
FinishedExactlyOnceWitness ==
    \E r \in Requests :
        /\ pc[r] = "done" /\ info[r].outcome = "error"
        /\ tracers[info[r].tracer].finish_calls = 1
        /\ Batches(info[r].root) = 1

\* C8 as claimed: the first span a task starts in the worker is a child of
\* the span that was active in the submitter (under a real tracer) when the
\* task was submitted, in the same trace, whatever ran on the worker before.
WorkerSpanIsChildOfSubmitted ==
    \A i \in DOMAIN tasks :
        tasks[i].tracer # NoopTracer /\ tasks[i].span # None /\ tasks[i].first # None =>
            /\ spans[tasks[i].first].parent_span_id = spans[tasks[i].span].span_id
            /\ spans[tasks[i].first].trace_id = spans[tasks[i].span].trace_id

\* C9 as claimed: when a task has returned or raised, the worker's context
\* (tracer, current span, attrs) is what it was just before the task began.
WorkerContextRestored ==
    last.op \in {"task_returned", "task_raised"} =>
        Getters(Mem, Ctx(Worker)) = tasks[last.ret].before

\* C11: a request whose path is blacklisted or whose application has no
\* tracer configuration is given a no-op tracer, sees no current span, starts
\* no span and has nothing exported, at any point up to and after its finish.
NoSpanForUntraced ==
    \A r \in Requests :
        info[r].tracer = NoopTracer =>
            /\ pc[r] \in {"running", "suspended"} => req[r] = NoopTracer
            /\ cur[IOLoop] = r => get_current_span(Mem, Ctx(IOLoop)) = None
            /\ get_current_span(Mem, RequestCtx(r)) = None
            /\ \A i \in DOMAIN spans : started[i].by # r
            /\ \A b \in DOMAIN exported : \A j \in DOMAIN exported[b] :
                    started[exported[b][j]].by # r

\* C11 witness: the handler of an untraced request has just called
\* start_span on its current tracer, after another request exported a span.
NoSpanForUntracedWitness ==
    /\ last.op = "start_span"
    /\ cur[IOLoop] \in Requests
    /\ info[cur[IOLoop]].tracer = NoopTracer
    /\ exported # <<>>

\* C18: every span started while handling a request that came with the
\* header of an unsampled caller has the propagated trace id and the right
\* parent span id (the propagated span for the request span, the active span
\* otherwise) and is never exported, under any configured sampler.
UnsampledNeverExported ==
    \A i \in DOMAIN spans :
        started[i].by \in Requests /\ info[started[i].by].hdr = "unsampled" =>
            /\ spans[i].trace_id = UnsampledContext.trace_id
            /\ spans[i].parent_span_id =
                    IF started[i].lparent = None THEN UnsampledContext.span_id
                    ELSE spans[started[i].lparent].span_id
            /\ Batches(i) = 0

\* C18 witness: a request from an unsampled caller, handled under the
\* always-on sampler, has finished after starting and ending a child span.
UnsampledNeverExportedWitness ==
    \E r \in Requests :
        /\ info[r].hdr = "unsampled" /\ pc[r] = "done"
        /\ tracers[info[r].tracer].sampler = "AlwaysOnSampler"
        /\ \E i \in DOMAIN spans :
            started[i].by = r /\ started[i].lparent # None /\ ~spans[i].open

\* The export() call that carried span i.
BatchOf(i) == CHOOSE b \in DOMAIN exported : exported[b][1] = i

\* C17: every export call carries one span; a sampled span is in no batch
\* while open and in exactly one once ended; ending a span appends its batch,
\* so batches are in end order; and for a request span A whose child B was
\* ended before it, B's batch precedes A's and B.parent_span_id = A.span_id.
ExportedOnceInEndOrder ==
    /\ [](\A b \in DOMAIN exported : Len(exported[b]) = 1)
    /\ [](\A i \in DOMAIN spans :
            spans[i].sampled => Batches(i) = IF spans[i].open THEN 0 ELSE 1)
    /\ [][last'.op = "end_span" => exported' = Append(exported, <<last'.ret>>)]_vars
    /\ [](\A i \in DOMAIN spans :
            LET a == started[i].lparent
            IN  a # None /\ ~spans[i].open /\ ~spans[a].open =>
                    /\ BatchOf(i) < BatchOf(a)
                    /\ spans[i].parent_span_id = spans[a].span_id)

\* C17 witness: a request has finished; the first batch holds its child span
\* and the second its request span.
ExportedOnceInEndOrderWitness ==
    /\ Len(exported) >= 2
    /\ started[exported[1][1]].lparent = exported[2][1]
    /\ \E r \in Requests : pc[r] = "done" /\ info[r].root = exported[2][1]

\* C12 as claimed: each fetch made under a real tracer starts one CLIENT
\* span named '[tornado.http_client]<METHOD>' that is open while the
\* future is pending and, once the future is done, has been ended, exported
\* once, and carries the HTTP status code attribute.
FetchSpanEndsWithFuture ==
    \A i \in DOMAIN calls :
        calls[i].kind = "fetch" /\ calls[i].traced =>
            /\ calls[i].span # None
            /\ spans[calls[i].span].name = <<HTTP_CLIENT, calls[i].arg>>
            /\ spans[calls[i].span].span_kind = "CLIENT"
            /\ calls[i].state = "pending" => spans[calls[i].span].open
            /\ calls[i].state = "done" =>
                    /\ ~spans[calls[i].span].open
                    /\ Batches(calls[i].span) = 1
                    /\ spans[calls[i].span].http_status_code # "none"

\* C13: for commands a thread issues one after another under a real tracer,
\* the started event opens one span, named after the command, which is the
\* current span while the command is pending and which the succeeded or
\* failed event ends and exports once; batches are in command order, and
\* no span is open or current when no command is pending.
OneSpanPerCommand ==
    /\ \A i \in DOMAIN calls :
        calls[i].kind = "command" /\ calls[i].traced =>
            /\ calls[i].span # None
            /\ spans[calls[i].span].name = <<PYMONGO, calls[i].arg>>
            /\ calls[i].state = "pending" =>
                    /\ spans[calls[i].span].open
                    /\ get_current_span(Mem, Ctx(calls[i].by)) = calls[i].span
            /\ calls[i].state = "done" =>
                    /\ ~spans[calls[i].span].open
                    /\ Batches(calls[i].span) = 1
            /\ \A j \in DOMAIN calls :
                    /\ j < i /\ calls[j].by = calls[i].by /\ calls[j].traced
                    /\ calls[i].state = "done"
                    => BatchOf(calls[j].span) < BatchOf(calls[i].span)
    /\ \A t \in Threads :
        PendingCommand(t) = 0 =>
            /\ get_current_span(Mem, Ctx(t)) = None
            /\ \A i \in DOMAIN spans : started[i].by = t => ~spans[i].open

\* C13 witness: a thread has completed three traced commands, the second
\* of which failed, and three batches were exported.
OneSpanPerCommandWitness ==
    /\ Len(calls) = 3 /\ Len(exported) = 3
    /\ \A i \in DOMAIN calls :
            calls[i].by = "t1" /\ calls[i].traced /\ calls[i].state = "done"
    /\ calls[2].outcome = "failed"

\* C19: a succeeded or failed event that arrives when the context has no
\* current span changes nothing: no export call, no span changed, no field
\* of any context changed, and get_current_span() is still none.
EndWithoutSpanIsNoop ==
    [][\A t \in Threads :
            /\ last'.op \in CommandEvents /\ last'.t = t
            /\ get_current_span(Mem, Ctx(t)) = None
            => /\ exported' = exported
               /\ spans' = spans
               /\ store' = store /\ dicts' = dicts
               /\ (get_current_span(Mem, Ctx(t)))' = None]_vars

\* C19 witness: under a real tracer, a succeeded event has arrived with no
\* command pending, after an earlier command's span was ended and exported.
EndWithoutSpanIsNoopWitness ==
    /\ last.op = "succeeded" /\ last.ret = 0
    /\ get_opencensus_tracer(Mem, Ctx(last.t)) # NoopTracer
    /\ \E i \in DOMAIN calls : calls[i].by = last.t /\ calls[i].state = "done"
    /\ exported # <<>>

\* C14: when the original of a traced redis call raises, the span the
\* wrapper started is ended and exported in exactly one export call, the
\* span that was current before the call is current again, and the caller
\* gets the original's exception.
RaisingCallEndsSpan ==
    \A i \in DOMAIN calls :
        /\ calls[i].kind \in {"execute_command", "execute",
                              "immediate_execute_command", "parse_response"}
        /\ calls[i].original = "ValueError"
        => /\ calls[i].caller = "ValueError"
           /\ calls[i].after = calls[i].prev
           /\ calls[i].span # None =>
                /\ ~spans[calls[i].span].open
                /\ spans[calls[i].span].sampled =>
                        Batches(calls[i].span) = 1 /\ calls[i].exports = 1

\* C14 witness: a pipeline execute() with queued commands raised inside an
\* enclosing span; its span was exported and the enclosing one is current.
RaisingCallEndsSpanWitness ==
    \E i \in DOMAIN calls :
        /\ calls[i].kind = "execute" /\ calls[i].arg = "MULTI"
        /\ calls[i].original = "ValueError"
        /\ calls[i].span # None /\ calls[i].prev # None
        /\ Batches(calls[i].span) = 1
        /\ get_current_span(Mem, Ctx(calls[i].by)) = calls[i].prev

\* C15: execute() on a traced pipeline whose command stack is empty starts
\* no span, exports nothing, leaves the current span as it was, invokes the
\* original execute and hands its result or exception to the caller.
EmptyPipelineUntraced ==
    \A i \in DOMAIN calls :
        calls[i].kind = "execute" /\ calls[i].arg = "empty" /\ calls[i].state = "done" =>
            /\ calls[i].span = None
            /\ calls[i].exports = 0
            /\ calls[i].after = calls[i].prev
            /\ calls[i].invoked
            /\ calls[i].caller = calls[i].original

\* C15 witness: an empty execute() returned the original's result on a
\* pipeline whose wrapper holds a real tracer, inside an open span.
EmptyPipelineUntracedWitness ==
    \E i \in DOMAIN calls :
        /\ calls[i].kind = "execute" /\ calls[i].arg = "empty"
        /\ calls[i].caller = "result"
        /\ captured["pipe"] \in DOMAIN tracers
        /\ calls[i].prev # None

\* C16: in every interleaving of enter and exit by several threads on one
\* ThreadSafeStackContext, the context object an exit pops and exits was
\* created by the exiting thread's own enter, had been entered, and is the
\* one that thread entered most recently among those it has not exited.
ExitPopsOwnContext ==
    \A i \in DOMAIN stackctx.objs :
        stackctx.objs[i].popped_by # "none" =>
            /\ stackctx.objs[i].popped_by = stackctx.objs[i].by
            /\ stackctx.objs[i].entered
            /\ stackctx.objs[i].due = i

\* C16 witness: one thread has popped its own entered context while the
\* other thread has created and appended a context it has not yet entered.
ExitPopsOwnContextWitness ==
    /\ stackctx.at["t1"] = "popped"
    /\ stackctx.objs[stackctx.context["t1"]].by = "t1"
    /\ stackctx.at["t2"] = "appended"
    /\ stackctx.context["t2"] > stackctx.context["t1"]

\* C20: the span context the worker decodes with from_header from the bytes
\* to_header produced at submission has the trace id, span id and sampling
\* flag the submitting tracer held, and the tracer the worker builds on it
\* starts with that triple.
HandoffRoundTrip ==
    \A i \in DOMAIN tasks :
        /\ from_header(tasks[i].kwargs.span_context_binary).trace_id = tasks[i].held.trace_id
        /\ from_header(tasks[i].kwargs.span_context_binary).span_id = tasks[i].held.span_id
        /\ from_header(tasks[i].kwargs.span_context_binary).sampled = tasks[i].held.sampled
        /\ last.op = "task_begin" /\ last.ret = i /\ ~tasks[i].kwargs.noop =>
            \E w \in {get_opencensus_tracer(Mem, Ctx(Worker))} :
                /\ w \in DOMAIN tracers
                /\ tracers[w].trace_id = tasks[i].held.trace_id
                /\ tracers[w].span_id = tasks[i].held.span_id
                /\ tracers[w].sampled = tasks[i].held.sampled

\* C20 witness: the worker has begun a task submitted under an unsampled
\* tracer whose trace id needs three bytes and whose span id needs two.
HandoffRoundTripWitness ==
    /\ last.op = "task_begin"
    /\ tasks[last.ret].held.trace_id = 70000
    /\ tasks[last.ret].held.span_id = 300
    /\ ~tasks[last.ret].held.sampled
    /\ tracers[get_opencensus_tracer(Mem, Ctx(Worker))].trace_id = 70000

\* C21 as stated: the normalised filter has the keys and nesting of the
\* filter with every scalar leaf, wherever it is, replaced by '?', the value
\* of '$in' and '$nin' replaced by '?', and None or a scalar filter mapped
\* to {}.
RECURSIVE LeavesMasked(_)
LeavesMasked(f) ==
    IF f.type = "list" THEN List([i \in DOMAIN f.items |-> LeavesMasked(f.items[i])])
    ELSE IF f.type = "dict"
    THEN Dict([k \in DOMAIN f.map |->
                IF k = "$in" \/ k = "$nin" THEN Q ELSE LeavesMasked(f.map[k])])
    ELSE Q

NormalizeMasksEveryLeaf ==
    io.fn = "_normalize_filter" /\ io.done =>
        io.out = IF IsContainer(io.arg) THEN LeavesMasked(io.arg) ELSE EmptyDict

\* C21 amended: a scalar or None that is the value of a key becomes '?',
\* one that is an element of a list becomes {} (as does a filter that is
\* None or a scalar), '$in' and '$nin' values become '?', keys and nesting
\* are kept; filters that differ only in leaf values normalise to the same
\* result, and no scalar of the filter occurs in it.
RECURSIVE KeyValuesMasked(_)
KeyValuesMasked(f) ==
    IF f.type = "list" THEN List([i \in DOMAIN f.items |-> KeyValuesMasked(f.items[i])])
    ELSE IF f.type = "dict"
    THEN Dict([k \in DOMAIN f.map |->
                IF k = "$in" \/ k = "$nin" \/ ~IsContainer(f.map[k]) THEN Q
                ELSE KeyValuesMasked(f.map[k])])
    ELSE EmptyDict

NormalizeHidesValues ==
    io.fn = "_normalize_filter" /\ io.done =>
        /\ io.out = KeyValuesMasked(io.arg)
        /\ io.out = _normalize_filter(SameShape(io.arg))
        /\ ScalarsIn(io.out) = {}

\* C21 witness: a document with a list of a scalar and None under one key
\* and a list of scalars under '$in' has been normalised; the list elements
\* became {}.
NormalizeHidesValuesWitness ==
    /\ io.fn = "_normalize_filter" /\ io.done
    /\ io.arg = Dict([k \in {"a", "$in"} |->
                        IF k = "a" THEN List(<<Scalar(20), PyNone>>)
                        ELSE List(<<Scalar(20), Scalar(30)>>)])
    /\ io.out = Dict([k \in {"a", "$in"} |->
                        IF k = "a" THEN List(<<EmptyDict, EmptyDict>>) ELSE Q])

\* The texts of a command's name and arguments, in order.
TextsOf(command) == [i \in DOMAIN command |-> <<command[i].s>>]
\* The command's name followed by a '?' for each argument.
MaskedTextsOf(command) == [i \in DOMAIN command |-> IF i = 1 THEN <<command[i].s>> ELSE <<"?">>]

\* C22: the statement of a command is its name and arguments in order
\* joined by single spaces, and the statement of a pipeline is the
\* statements of its stacked commands joined by ';'.
StatementKeepsArguments ==
    /\ io.fn = "_normalize_stmt" /\ io.done =>
            io.out = [raised |-> "none", text |-> Pieces(" ", TextsOf(io.arg))]
    /\ io.fn = "_normalize_stmts" /\ io.done =>
            io.out = [raised |-> "none",
                      text |-> Pieces(";", [i \in DOMAIN io.arg |->
                                                Pieces(" ", TextsOf(io.arg[i]))])]

\* C23: in the statement every argument is replaced by '?', only the
\* command name being kept.
StatementMasksArguments ==
    /\ io.fn = "_normalize_stmt" /\ io.done =>
            io.out = [raised |-> "none", text |-> Pieces(" ", MaskedTextsOf(io.arg))]
    /\ io.fn = "_normalize_stmts" /\ io.done =>
            io.out = [raised |-> "none",
                      text |-> Pieces(";", [i \in DOMAIN io.arg |->
                                                Pieces(" ", MaskedTextsOf(io.arg[i]))])]

\* C24: the tracer the worker builds for a task carries the trace id and
\* span id the submitter's tracer had when submit was called, whatever the
\* submitter has started or ended since, and the first span of the task has
\* that trace id and, as parent, that span id or what earlier tasks left in
\* the worker (a span of the worker, the span id an earlier task was
\* submitted under, or none): never a span the submitter made current
\* after the submit call.
SubmitTimeContext ==
    \A i \in DOMAIN tasks :
        tasks[i].status # "queued" /\ ~tasks[i].kwargs.noop =>
            /\ last.op = "task_begin" /\ last.ret = i =>
                \E w \in {get_opencensus_tracer(Mem, Ctx(Worker))} :
                    /\ tracers[w].trace_id = tasks[i].held.trace_id
                    /\ tracers[w].span_id = tasks[i].held.span_id
            /\ tasks[i].first # None =>
                /\ spans[tasks[i].first].trace_id = tasks[i].held.trace_id
                /\ \/ spans[tasks[i].first].parent_span_id = None
                   \/ \E j \in 1..i :
                        spans[tasks[i].first].parent_span_id = tasks[j].held.span_id
                   \/ /\ spans[tasks[i].first].parent # None
                      /\ started[spans[tasks[i].first].parent].by = Worker

\* C24 witness: the submitter started another span between the submit
\* call and the task's first span, whose parent is the span that was
\* current at the submit call.
SubmitTimeContextWitness ==
    \E i \in DOMAIN tasks :
        /\ tasks[i].first # None
        /\ tasks[i].span # None
        /\ spans[tasks[i].first].parent_span_id = spans[tasks[i].span].span_id
        /\ \E j \in DOMAIN spans :
                /\ started[j].by = Submitter
                /\ tasks[i].span < j /\ j < tasks[i].first

\* C25: the tracer the worker installs for a task of a real tracer is a new
\* tracer object, not the submitter's, and no step of the worker (beginning
\* a task, starting or ending a span, ending the task) changes the
\* submitter's current span, its tracer or its tracer's span context.
WorkerLeavesSubmitterAlone ==
    [][last'.t = Worker =>
            /\ (get_current_span(Mem, Ctx(Submitter)))' = get_current_span(Mem, Ctx(Submitter))
            /\ (get_opencensus_tracer(Mem, Ctx(Submitter)))'
                    = get_opencensus_tracer(Mem, Ctx(Submitter))
            /\ (span_context(Mem, get_opencensus_tracer(Mem, Ctx(Submitter))))'
                    = span_context(Mem, get_opencensus_tracer(Mem, Ctx(Submitter)))
            /\ last'.op = "task_begin" /\ ~tasks'[last'.ret].kwargs.noop =>
                    /\ (get_opencensus_tracer(Mem, Ctx(Worker)))' \notin DOMAIN tracers
                    /\ (get_opencensus_tracer(Mem, Ctx(Worker)))' # tasks'[last'.ret].tracer]_vars

\* C25 witness: a task submitted under span S started and ended a span in
\* the worker and is done, and S is still the submitter's current span.
WorkerLeavesSubmitterAloneWitness ==
    \E i \in DOMAIN tasks :
        /\ tasks[i].status = "done"
        /\ tasks[i].span # None
        /\ tasks[i].first # None /\ ~spans[tasks[i].first].open
        /\ get_current_span(Mem, Ctx(Submitter)) = tasks[i].span
        /\ last.t = Worker

\* C26: a submit under a no-op tracer ships the no-op marker and no sampler
\* (a submit under a real tracer ships the tracer's sampler and no marker);
\* the worker then installs a no-op tracer, and while such a task runs no
\* step of the worker creates a span or exports anything.
NoopSubmitStaysNoop ==
    /\ [](\A i \in DOMAIN tasks :
            /\ tasks[i].kwargs.noop <=> tasks[i].tracer = NoopTracer
            /\ tasks[i].kwargs.noop <=> tasks[i].kwargs.sampler = "none"
            /\ tasks[i].tracer # NoopTracer =>
                    tasks[i].kwargs.sampler = tracers[tasks[i].tracer].sampler
            /\ tasks[i].kwargs.noop /\ tasks[i].status = "running" =>
                    get_opencensus_tracer(Mem, Ctx(Worker)) = NoopTracer)
    /\ [][\A i \in DOMAIN tasks :
            tasks[i].kwargs.noop /\ tasks'[i].status = "running" /\ last'.t = Worker
            => spans' = spans /\ exported' = exported]_vars

\* C26 witness: a task submitted under the no-op tracer is running and the
\* worker has just called start_span on the tracer installed for it.
NoopSubmitStaysNoopWitness ==
    \E i \in DOMAIN tasks :
        /\ tasks[i].kwargs.noop /\ tasks[i].status = "running"
        /\ last.op = "start_span" /\ last.t = Worker

\* C27: once a full context has been taken and restored, a
\* set_opencensus_attr in one thread does not change what
\* get_opencensus_attrs and get_opencensus_attr return in another thread.
AttrWritesStayLocal ==
    [][\A t \in Threads :
            last'.op = "set_opencensus_attr" /\ last'.t # t /\ snap.by # "none"
            => (AttrsResult(Mem, Ctx(t)))' = AttrsResult(Mem, Ctx(t))]_vars

\* C28: set_opencensus_tracer leaves the current span and the attribute map
\* of the caller's context as they were, set_current_span the tracer and the
\* map, set_opencensus_attr and set_opencensus_attrs the tracer and the span,
\* and set_opencensus_attr leaves every key but the one it writes as it was.
SettersAreIndependent ==
    [][\A t \in Threads :
            last'.t = t =>
                /\ last'.op = "set_opencensus_tracer" =>
                      /\ store'[Ctx(t)].current_span = store[Ctx(t)].current_span
                      /\ (AttrsResult(Mem, Ctx(t)))' = AttrsResult(Mem, Ctx(t))
                /\ last'.op = "set_current_span" =>
                      /\ store'[Ctx(t)].tracer = store[Ctx(t)].tracer
                      /\ (AttrsResult(Mem, Ctx(t)))' = AttrsResult(Mem, Ctx(t))
                /\ last'.op \in {"set_opencensus_attr", "set_opencensus_attrs"} =>
                      /\ store'[Ctx(t)].tracer = store[Ctx(t)].tracer
                      /\ store'[Ctx(t)].current_span = store[Ctx(t)].current_span
                /\ last'.op = "set_opencensus_attr" =>
                      \E k \in Keys : \A other \in Keys \ {k} :
                          (get_opencensus_attr(Mem, Ctx(t), other))' =
                              get_opencensus_attr(Mem, Ctx(t), other)]_vars

\* A thread holding a tracer, a span and the key k1 has just written k2.
SettersAreIndependentWitness ==
    /\ last.op = "set_opencensus_attr"
    /\ last.t = "t1"
    /\ store["t1"].tracer = 1
    /\ store["t1"].current_span = 1
    /\ get_opencensus_attr(Mem, "t1", "k1") = "v1"
    /\ get_opencensus_attr(Mem, "t1", "k2") = "v1"

\* C29: once a traced request has finished, the getters return in its
\* context what they return after clean(): a no-op tracer, no current span
\* and an empty attribute map.
CleanedAfterRequest ==
    \A r \in Requests :
        pc[r] = "done" /\ info[r].tracer \notin {None, NoopTracer} =>
            Getters(Mem, r) = [tracer |-> NoopTracer, span |-> None,
                               attrs |-> [none |-> FALSE, map |-> EmptyMap]]

\* C30: no execution-context call raises in a request context, and after
\* any sequence of calls the three getters return in the request context
\* what they return in a thread-local store given the same calls.
BackendSwappable ==
    /\ last.op # "clear_raised"
    /\ cur[IOLoop] \in Requests =>
            Getters(Mem, Ctx(IOLoop)) = Getters(Mem, Ctx(Twin))

\* C31: with the Tornado backend installed, an execution-context call acts
\* on the caller's thread-local store when no stack context is entered and
\* on the entered request's context otherwise, leaving every other store as
\* it was; when a stack context is left the thread-local getters return what
\* they returned when it was entered.
StoreFollowsStackContext ==
    [][\A t \in Threads :
        \E target \in {IF cur[t] = NoContext THEN t ELSE cur[t]} :
            patched /\ last'.t = t =>
                /\ last'.op \in {"set_opencensus_tracer", "set_current_span",
                                 "set_opencensus_attr", "clean"} =>
                        \A c \in Locs \ {target} : (Getters(Mem, c))' = Getters(Mem, c)
                /\ last'.op = "set_opencensus_tracer" =>
                        store'[target].tracer = last'.ret
                /\ last'.op = "set_current_span" =>
                        store'[target].current_span = last'.ret
                /\ last'.op = "set_opencensus_attr" =>
                        (get_opencensus_attr(Mem, target, "k1"))' = "v1"
                /\ last'.op = "clean" =>
                        (Getters(Mem, target))' =
                            [tracer |-> NoopTracer, span |-> None,
                             attrs |-> [none |-> FALSE, map |-> EmptyMap]]
                /\ last'.op = "__exit__" =>
                        (Getters(Mem, t))' = calls[Innermost(t)].local]_vars

\* A thread-local store holding a span was left alone while a tracer was set
\* in request r1's context, and the stack context has been left.
StoreFollowsStackContextWitness ==
    /\ patched
    /\ last.op = "__exit__"
    /\ cur[IOLoop] = NoContext
    /\ store[IOLoop].current_span = 1
    /\ store[IOLoop].tracer = Absent
    /\ store["r1"].tracer = 1
    /\ store["r1"].current_span = Absent

\* C36: an __exit__ makes current_context() of its thread what it was just
\* before the matching __enter__, None when it was the outermost one; an
\* __enter__ or __exit__ on one thread leaves current_context() of the
\* other thread as it was.
ExitRestoresContext ==
    [][\A t \in Threads :
            last'.t = t /\ last'.op \in {"__enter__", "__exit__"} =>
                /\ last'.op = "__exit__" =>
                        /\ cur'[t] = calls[Innermost(t)].before
                        /\ Cardinality(EnteredBy(t)) = 1 => cur'[t] = NoContext
                /\ \A u \in Threads \ {t} : cur'[u] = cur[u]]_vars

\* Thread t1 has left an inner stack context and is back in r1's, while
\* thread t2 is inside r2's.
ExitRestoresContextWitness ==
    /\ last.op = "__exit__"
    /\ last.t = "t1"
    /\ cur["t1"] = "r1"
    /\ cur["t2"] = "r2"

\* C32: a span started by code on one thread is never the current span of
\* another thread that is inside a stack context, nor the parent of a span
\* started on another thread.
SpansStayOnTheirThread ==
    \A i \in DOMAIN spans :
        started[i].by \in Threads =>
            /\ \A t \in Threads \ {started[i].by} :
                    cur[t] \in Requests => get_current_span(Mem, Ctx(t)) # i
            /\ \A j \in DOMAIN spans :
                    started[j].by \in Threads \ {started[i].by} => spans[j].parent # i

\* C33: a traced redis call made while the execution context holds a real
\* tracer starts its span on that tracer, whichever tracer was current when
\* the redis classes were patched.
RedisSpanOnCurrentTracer ==
    [][\A t \in Threads :
        \E tracer \in {get_opencensus_tracer(Mem, Ctx(t))} :
            /\ last'.t = t
            /\ last'.op \in {method.op : method \in RedisMethods}
            /\ Len(calls') = Len(calls) + 1
            /\ calls'[Len(calls')].arg # "empty"
            /\ tracer # NoopTracer
            => /\ Len(spans') = Len(spans) + 1
               /\ spans'[Len(spans')].tracer = tracer]_vars

\* C34: by the time on_finish has run for a traced request, whatever the
\* handler's outcome, its tracer has been finished and its request span has
\* been ended and exported.
RequestSpanClosedAfterFinish ==
    \A r \in Requests :
        pc[r] = "done" /\ info[r].tracer \notin {None, NoopTracer} =>
            /\ tracers[info[r].tracer].finish_calls >= 1
            /\ ~spans[info[r].root].open
            /\ Batches(info[r].root) >= 1

\* C35: with any number of fetches pending at once (and none ending in an
\* exception without a status), the span started for a fetch stays open and
\* without a status code until that fetch's future is done, is then ended
\* with that fetch's status code, and is never the parent of another
\* fetch's span.
FetchEndsOwnSpan ==
    (\A k \in DOMAIN calls : calls[k].outcome # "exception") =>
        \A i \in DOMAIN calls :
            calls[i].kind = "fetch" /\ calls[i].span # None =>
                /\ calls[i].state = "pending" =>
                        /\ spans[calls[i].span].open
                        /\ spans[calls[i].span].http_status_code = "none"
                /\ calls[i].state = "done" =>
                        /\ ~spans[calls[i].span].open
                        /\ spans[calls[i].span].http_status_code = status_code(calls[i].outcome)
                /\ \A j \in DOMAIN calls :
                        calls[j].kind = "fetch" /\ calls[j].span # None =>
                            spans[calls[j].span].parent # calls[i].span

\* C37: whenever a patched redis operation has invoked the original, the
\* caller gets exactly what the original returned or raised.
RedisResultUnchanged ==
    \A i \in DOMAIN calls :
        calls[i].kind \in {method.op : method \in RedisMethods} /\ calls[i].invoked =>
            calls[i].caller = calls[i].original

\* C38: however many times the redis integration was applied, one traced
\* call of a patched method starts exactly one span and makes exactly one
\* export.
AppliedTwiceTracesOnce ==
    \A i \in DOMAIN calls :
        /\ calls[i].kind \in {method.op : method \in RedisMethods}
        /\ calls[i].traced
        /\ calls[i].arg # "empty"
        /\ calls[i].state = "done"
        => calls[i].spans = 1 /\ calls[i].exports = 1

====
